---- MODULE Spec2Model ----
(***************************************************************************)
(* Macless Haystack web application (src/app.js): the report decryption    *)
(* pipeline and the batch that feeds it.  decryptReport frames a base64    *)
(* report payload, runs ECDH, the X9.63 KDF and AES-GCM (platform          *)
(* provider, then software fallback), and decodePayload parses the 10-byte *)
(* plaintext.  fetchLocations derives each active device's hashed          *)
(* advertisement key, queries the endpoint, decrypts what comes back,      *)
(* sorts and publishes state.locations.  Further specifications follow    *)
(* one call of fetchLocationReportsFromEndpoint against the clock, two     *)
(* fetchLocations calls in progress at once, and the user's operations     *)
(* (devices saved, imported, deleted; settings saved; directions opened).  *)
(*                                                                         *)
(* Numbers.  TLC integers are 32-bit, so a uint32 read by DataView is kept *)
(* as a pair <<hi, lo>> of 16-bit halves (value hi * 65536 + lo, hi may be *)
(* negative after a subtraction).  A latitude or longitude (a double in    *)
(* the code) is kept as the numerator over 10000000 nearest to it.  The    *)
(* doubles of decodePayload are within 1e-12 degrees of the exact value,   *)
(* so every guard that compares values 1e-7 apart is decided exactly; the  *)
(* one guard where the exact difference equals the limit is decided by     *)
(* the rounding of the double subtraction (RoundsBelow).  A Date is        *)
(* kept as <<day, sec>>: whole days and seconds since 1970-01-01T00:00:00Z *)
(* (getTime() is (day * 86400 + sec) * 1000; milliseconds are always 0).   *)
(***************************************************************************)
EXTENDS Integers, Sequences, FiniteSets, TLC

VARIABLES
    pc,                \* position in decryptReport / decryptPayload
    tz,                \* the runtime's local time zone
    window,            \* which globals the page has: subtle, nobleGcm, nobleSha256, secp224r1
    origin,            \* how the report was produced (ghost: base payload, injected byte)
    report,            \* decryptReport's report: payload (base64 text), datePublished
    privateKey,        \* decryptReport's privateKeyBase64 (as its bytes)
    payloadData,       \* decryptReport's payloadData (decoded, then corrected)
    ephemeralKeyBytes, \* payloadData.slice(5, 62)
    encData,           \* payloadData.slice(62, 72)
    tag,               \* payloadData.slice(72)
    timestamp,         \* decryptReport's timestamp (a Date, <<day, sec>>)
    confidence,        \* payloadData[4]
    sharedSecret,      \* result of ecdh
    derivedKey,        \* result of kdf
    hashInputs,        \* the calls of sha256 so far: backend and input
    backendCalls,      \* the AES-GCM backend invocations of decryptPayload so far
    decryptedPayload,  \* decodePayload's payload argument (AES-GCM plaintext)
    result,            \* the location returned by decryptReport, or "none"
    error,             \* the error decryptReport throws, or "none"
    accessories,       \* state.accessories
    settings,          \* state.settings
    locations,         \* state.locations
    markers,           \* state.markers
    toast,             \* the toast on screen: the last showToast call
    console,           \* the console.error calls of fetchLocations so far
    fpc,               \* position in fetchLocations
    fetchDays,         \* fetchLocations' days
    activeAccessories, \* fetchLocations' activeAccessories
    device,            \* index of the for-of loop over activeAccessories
    hashedKey,         \* fetchLocations' hashedKey
    reports,           \* fetchLocations' reports
    reportIndex,       \* index of the for-of loop over reports
    allLocations,      \* fetchLocations' allLocations
    requests,          \* the requests sent to the endpoint so far, with their responses
    attempts,          \* the decryptReport calls of fetchLocations so far
    epc,               \* position in fetchLocationReportsFromEndpoint
    timer,             \* the setTimeout of the call: unset, armed, cleared or fired
    elapsed,           \* milliseconds since the call began
    received,          \* what fetch() gave: the response, an abort or a network failure
    outcome,           \* what the call returned or threw
    run,               \* which fetchLocations call the fetch variables belong to
    parked,            \* the local variables of the other fetchLocations calls
    outbound,          \* what the page has sent to hosts other than the endpoint
    ops,               \* the number of user operations so far
    importOffer        \* the devices importDeviceJson offers to import, or NotYet

inputVars == <<tz, window, origin, report, privateKey>>

frameVars == <<payloadData, ephemeralKeyBytes, encData, tag, timestamp, confidence>>

cryptoVars == <<sharedSecret, derivedKey, hashInputs, backendCalls, decryptedPayload>>

appVars == <<accessories, settings, locations, markers, toast, console>>

fetchVars == <<fpc, fetchDays, activeAccessories, device, hashedKey, reports, reportIndex,
               allLocations, requests, attempts>>

pipelineVars == <<pc, inputVars, frameVars, cryptoVars, result, error>>

callVars == <<epc, timer, elapsed, received, outcome>>

sessionVars == <<run, parked, outbound, ops, importOffer>>

vars == <<pipelineVars, appVars, fetchVars, callVars, sessionVars>>

(***************************************************************************)
(* Bytes and DataView reads                                                *)
(***************************************************************************)
Byte == 0..255

\* Uint8Array.prototype.slice(from, to): 0-based, end exclusive, clamped.
Min(a, b) == IF a < b THEN a ELSE b

Slice(bytes, from, to) ==
    LET t == Min(to, Len(bytes))
        f == Min(from, t)
    IN [i \in 1..(t - f) |-> bytes[f + i]]

\* A number of up to 33 bits as <<hi, lo>>, lo in 0..65535.
WNorm(hi, lo) == <<hi + (lo \div 65536), lo % 65536>>

WAdd(a, b) == WNorm(a[1] + b[1], a[2] + b[2])

WSub(a, b) == WNorm(a[1] - b[1], a[2] - b[2])

WGt(a, b) == a[1] > b[1] \/ (a[1] = b[1] /\ a[2] > b[2])

WLt(a, b) == WGt(b, a)

\* The wide form of an integer that fits TLC's range.
FromInt(n) == <<n \div 65536, n % 65536>>

\* DataView.getUint32(offset, false): big-endian; RangeError when out of bounds.
InBounds(bytes, offset, width) == offset + width <= Len(bytes)

getUint32(bytes, offset) ==
    <<bytes[offset + 1] * 256 + bytes[offset + 2],
      bytes[offset + 3] * 256 + bytes[offset + 4]>>

getUint8(bytes, offset) == bytes[offset + 1]

\* The four big-endian bytes of n modulo 2^32 (two's complement for n < 0).
Int32Bytes(n) ==
    <<(n \div 16777216) % 256, (n \div 65536) % 256, (n \div 256) % 256, n % 256>>

(***************************************************************************)
(* decodePayload (src/app.js 271-304)                                      *)
(***************************************************************************)
\* 90.0 and 180.0 as numerators over 10000000
LatLimit == FromInt(900000000)

LonLimit == FromInt(1800000000)

NegLatLimit == FromInt(-900000000)

NegLonLimit == FromInt(-1800000000)

\* const pointCorrection = 0xFFFFFFFF / 10000000
pointCorrection == <<65535, 65535>>

\* The double v - pointCorrection when its exact value is the negative limit.
\* Longitude: 249.4967295 - 429.4967295 is -180.00000000000003 in doubles,
\* below -180.  Latitude: 339.4967295 - 429.4967295 is -90 exactly.
RoundsBelow(negLimit) ==
    negLimit = NegLonLimit

\* if (v > limit) v -= pointCorrection; if (v < -limit) v += pointCorrection;
Correct(v, limit, negLimit) ==
    LET subtracted == WGt(v, limit)
        a == IF subtracted THEN WSub(v, pointCorrection) ELSE v
        below == \/ WLt(a, negLimit)
                 \/ subtracted /\ a = negLimit /\ RoundsBelow(negLimit)
    IN IF below THEN WAdd(a, pointCorrection) ELSE a

batteryStatuses == <<"ok", "medium", "low", "critical">>

\* (status & 0x20) !== 0 || status > 0
HasBattery(status) == ((status \div 32) % 2 # 0) \/ status > 0

\* A shift by 5 instead of 6 (the battery bits read one position low).
batteryLevel_Shift5(status) == (status \div 32) % 4

\* (status >> 6) & 0x03
batteryLevel(status) == (status \div 64) % 4

BatteryOf(status) ==
    IF HasBattery(status) THEN batteryStatuses[batteryLevel(status) + 1] ELSE "null"

\* The DataView reads of decodePayload need bytes 0..9.
DecodeInBounds(payload) == InBounds(payload, 9, 1)

decodePayload(payload, datePublished, ts, conf) ==
    LET latitudeRaw == getUint32(payload, 0)
        longitudeRaw == getUint32(payload, 4)
        accuracy == getUint8(payload, 8)
        status == getUint8(payload, 9)
    IN [latitude |-> Correct(latitudeRaw, LatLimit, NegLatLimit),
        longitude |-> Correct(longitudeRaw, LonLimit, NegLonLimit),
        accuracy |-> accuracy,
        datePublished |-> datePublished,
        timestamp |-> ts,
        confidence |-> conf,
        batteryStatus |-> BatteryOf(status)]

(***************************************************************************)
(* base64 (atob / btoa as used by base64ToBytes and bytesToBase64).  A     *)
(* string is the sequence of its character codes.                          *)
(***************************************************************************)
\* The character code of sextet v: A-Z, a-z, 0-9, '+', '/'.
B64Char(v) ==
    IF v < 26 THEN 65 + v
    ELSE IF v < 52 THEN 97 + (v - 26)
    ELSE IF v < 62 THEN 48 + (v - 52)
    ELSE IF v = 62 THEN 43 ELSE 47

\* The sextet of character code c, or -1 when c is not in the alphabet.
B64Value(c) ==
    IF c >= 65 /\ c <= 90 THEN c - 65
    ELSE IF c >= 97 /\ c <= 122 THEN c - 97 + 26
    ELSE IF c >= 48 /\ c <= 57 THEN c - 48 + 52
    ELSE IF c = 43 THEN 62
    ELSE IF c = 47 THEN 63 ELSE -1

PadChar == 61

\* btoa of the binary string of bytes (bytesToBase64, src/app.js 62-68).
bytesToBase64(bytes) ==
    LET n == Len(bytes)
        groups == (n + 2) \div 3
        at(i) == IF i <= n THEN bytes[i] ELSE 0
        char(g, k) ==
            LET b1 == at(3 * g - 2)
                b2 == at(3 * g - 1)
                b3 == at(3 * g)
            IN CASE k = 1 -> B64Char(b1 \div 4)
                 [] k = 2 -> B64Char((b1 % 4) * 16 + (b2 \div 16))
                 [] k = 3 -> IF 3 * g - 1 > n THEN PadChar
                             ELSE B64Char((b2 % 16) * 4 + (b3 \div 64))
                 [] OTHER -> IF 3 * g > n THEN PadChar ELSE B64Char(b3 % 64)
    IN [i \in 1..(4 * groups) |-> char(((i - 1) \div 4) + 1, ((i - 1) % 4) + 1)]

\* atob: the text without its ASCII whitespace (tab, line feed, form feed,
\* carriage return, space).
B64Strip(text) ==
    SelectSeq(text, LAMBDA c : c \notin {9, 10, 12, 13, 32})

\* atob: the data without its padding ('=' or '==' when the length is a
\* multiple of 4).
B64Unpad(data) ==
    LET n == Len(data)
    IN IF n > 0 /\ n % 4 = 0 /\ data[n] = PadChar
         THEN IF data[n - 1] = PadChar THEN SubSeq(data, 1, n - 2)
              ELSE SubSeq(data, 1, n - 1)
         ELSE data

\* atob: what is left to decode.
B64Body(text) == B64Unpad(B64Strip(text))

\* atob throws InvalidCharacterError on a character outside the alphabet or a
\* length of 1 modulo 4.
B64BodyValid(body) ==
    /\ Len(body) % 4 # 1
    /\ \A i \in 1..Len(body) : B64Value(body[i]) >= 0

B64Valid(text) == B64BodyValid(B64Body(text))

\* atob: the bytes the groups of four characters stand for.
B64Decode(body) ==
    LET m == Len(body)
        n == (m \div 4) * 3 + (IF m % 4 = 0 THEN 0 ELSE (m % 4) - 1)
        v(i) == IF i <= m THEN B64Value(body[i]) ELSE 0
        byte(j) ==
            LET g == (j - 1) \div 3
                k == (j - 1) % 3
            IN CASE k = 0 -> v(4 * g + 1) * 4 + (v(4 * g + 2) \div 16)
                 [] k = 1 -> (v(4 * g + 2) % 16) * 16 + (v(4 * g + 3) \div 4)
                 [] OTHER -> (v(4 * g + 3) % 4) * 64 + v(4 * g + 4)
    IN [j \in 1..n |-> byte(j)]

\* base64ToBytes (src/app.js 52-59): the char codes of atob(base64).
base64ToBytes(text) == B64Decode(B64Body(text))

(***************************************************************************)
(* Dates (ECMAScript time values) and the runtime's time zone              *)
(***************************************************************************)
SecPerDay == 86400

\* A time <<day, sec>> with sec brought into 0..86399.
TNorm(day, sec) == <<day + (sec \div SecPerDay), sec % SecPerDay>>

\* t plus a number of seconds that fits TLC's range (an offset).
TShift(t, secs) == TNorm(t[1], t[2] + secs)

\* t plus a uint32 number of seconds w = <<hi, lo>>: w = q * 128 + lo % 128 with
\* q = hi * 512 + lo \div 128, and 86400 = 675 * 128.
TAddWide(t, w) ==
    LET q == w[1] * 512 + (w[2] \div 128)
        days == q \div 675
        secs == (q % 675) * 128 + (w[2] % 128)
    IN TNorm(t[1] + days, t[2] + secs)

TLe(a, b) == a[1] < b[1] \/ (a[1] = b[1] /\ a[2] <= b[2])

TLess(a, b) == a[1] < b[1] \/ (a[1] = b[1] /\ a[2] < b[2])

\* Date.UTC(2001, 0, 1): 2001-01-01T00:00:00Z is day 11323 after 1970-01-01.
DateUTC2001 == <<11323, 0>>

\* DayFromYear: the day number (days since 1970-01-01) of January 1 of year y.
DayFromYear(y) ==
    365 * (y - 1970) + ((y - 1969) \div 4) - ((y - 1901) \div 100)
        + ((y - 1601) \div 400)

\* The year of the day: the guess (never too small, at most one too large).
YearNear(guess, day) == IF DayFromYear(guess) <= day THEN guess ELSE guess - 1

\* YearFromTime: the largest y with DayFromYear(y) <= day.
YearOf(day) == YearNear(1970 + (day \div 365), day)

\* The day number of the n-th day (from 0) of year y, n past February.
DayOfYear(y, n) ==
    DayFromYear(y) + n + (DayFromYear(y + 1) - DayFromYear(y) - 365)

\* WeekDay: 0 is Sunday (1970-01-01 was a Thursday).
WeekDay(day) == (day + 4) % 7

\* The first Sunday on or after the day.
SundayFrom(day) == day + ((7 - WeekDay(day)) % 7)

\* The last Sunday on or before the day.
SundayUntil(day) == day - WeekDay(day)

\* Time zones of the runtime (its time zone database): a standard offset and,
\* for a zone that observes daylight saving time, the offset in force during
\* the daylight period of each year.
Zones ==
    { [name |-> "UTC", std |-> 0, dst |-> 0, rule |-> "none"],
      [name |-> "Asia/Kolkata", std |-> 19800, dst |-> 19800, rule |-> "none"],
      [name |-> "America/Bogota", std |-> -18000, dst |-> -18000, rule |-> "none"],
      [name |-> "America/New_York", std |-> -18000, dst |-> -14400, rule |-> "US"] }

\* The daylight period of year y under the United States rule, as UTC
\* instants: from 02:00 standard time on the second Sunday of March to 02:00
\* daylight time on the first Sunday of November (since 2007); from the first
\* Sunday of April to the last Sunday of October (1987 to 2006).  Dates before
\* 1987 do not occur: the earliest is Date.UTC(2001, 0, 1) in local time.
\* March 1 is day 59 of a common year, April 1 day 90, October 31 day 303,
\* November 1 day 304.
DstPeriod(zone, y) ==
    [from |-> <<IF y >= 2007 THEN SundayFrom(DayOfYear(y, 59)) + 7
                ELSE SundayFrom(DayOfYear(y, 90)),
                7200 - zone.std>>,
     to |-> <<IF y >= 2007 THEN SundayFrom(DayOfYear(y, 304))
              ELSE SundayUntil(DayOfYear(y, 303)),
              7200 - zone.dst>>]

\* Whether the instant u lies in the period.
Within(period, u) == TLe(period.from, u) /\ TLess(u, period.to)

\* Whether daylight saving time is in force in the zone at the UTC instant u.
InDst(zone, u) ==
    zone.rule = "US" /\ Within(DstPeriod(zone, YearOf(u[1])), u)

\* LocalTZA(t, true): the offset in force at the UTC instant t.
LocalTZA_UTC(zone, t) ==
    IF InDst(zone, t) THEN zone.dst ELSE zone.std

\* LocalTZA(t, false): the offset for the local time t (a skipped or repeated
\* local time takes the offset before the transition).
LocalTZA_Local(zone, t) ==
    IF InDst(zone, TShift(t, -zone.dst)) THEN zone.dst ELSE zone.std

\* Date.prototype.setSeconds: t = LocalTime(tv); the seconds field of the local
\* time is replaced (MakeTime(hour, min, sec, ms), MakeDate(Day(t), time)) and
\* the result is taken back with UTC().
setSeconds(zone, t, sec) ==
    LET local == TShift(t, LocalTZA_UTC(zone, t))
        date == TAddWide(<<local[1], local[2] - (local[2] % 60)>>, sec)
    IN TShift(date, -LocalTZA_Local(zone, date))

\* const seenTimeStamp = new DataView(payloadData.buffer).getUint32(0, false);
\* const timestamp = new Date(Date.UTC(2001, 0, 1)); timestamp.setSeconds(seenTimeStamp);
SeenTimestamp(zone, payload) ==
    setSeconds(zone, DateUTC2001, getUint32(payload, 0))


(***************************************************************************)
(* The cryptographic libraries the page loads (Web Crypto, @noble/hashes,  *)
(* @noble/curves, @noble/ciphers) are outside the repository.  They are    *)
(* modelled by small deterministic stand-ins of the same shape: a 32-byte  *)
(* digest that depends on every input byte and its position, a shared      *)
(* secret computed from a 57-byte uncompressed point and a scalar, and an  *)
(* authenticated cipher whose last 16 data bytes are the tag.               *)
(***************************************************************************)
RECURSIVE WeightedSum(_, _, _)
\* The sum of (bytes[i] + 1) * weight(i) for i in lo..hi, by halves.
WeightedSum(bytes, lo, hi) ==
    IF lo > hi THEN 0
    ELSE IF lo = hi THEN (bytes[lo] + 1) * (((lo * 131) % 251) + 1)
    ELSE LET mid == (lo + hi) \div 2
         IN WeightedSum(bytes, lo, mid) + WeightedSum(bytes, mid + 1, hi)

\* A checksum that depends on every byte, its position and the length.
Mix(bytes) == (WeightedSum(bytes, 1, Len(bytes)) + 7 * Len(bytes) + 1) % 65521

\* SHA-256 stand-in: 32 bytes.
Digest(bytes) ==
    LET h == Mix(bytes)
    IN [i \in 1..32 |-> ((h \div 256) * i + (h % 256) + i * i) % 256]

\* sha256 (src/app.js 85-100): Web Crypto first, then @noble/hashes.
Sha256Backend(w) ==
    IF w.subtle THEN "subtle" ELSE IF w.nobleSha256 THEN "noble" ELSE "none"

NoSha256Error == "No SHA-256 implementation available. Use localhost or HTTPS."

\* secp224r1 stand-in.  A public point is 0x04, X (28 bytes), Y (28 bytes); it
\* is on the curve when Y matches X.
PointY(x) == [i \in 1..28 |-> (x[i] * 5 + i) % 256]

ValidPoint(pub) ==
    /\ Len(pub) = 57
    /\ pub[1] = 4
    /\ Slice(pub, 29, 57) = PointY(Slice(pub, 1, 29))

\* getSharedSecret(priv, pub): the compressed shared point, prefix and X.
getSharedSecret(priv, pub) ==
    <<2>> \o [i \in 1..28 |-> (pub[i + 1] * 3 + priv[i] * 7 + i) % 256]

CurveNotLoadedError == "secp224r1 curve not loaded"

\* ecdh (src/app.js 162-173): shared.slice(1).
ecdh(ephemeralPublicKeyBytes, priv) ==
    Slice(getSharedSecret(priv, ephemeralPublicKeyBytes), 1, 29)

\* AES-GCM stand-in with a 128-bit tag.
KeyStream(key, iv, n) ==
    [i \in 1..n |-> (key[((i - 1) % Len(key)) + 1] + iv[((i - 1) % Len(iv)) + 1] + i) % 256]

GcmTag(key, iv, ct) ==
    LET h == (Mix(ct) + 3 * Mix(iv) + 7 * Mix(key)) % 65521
    IN [j \in 1..16 |-> ((h \div 256) + (h % 256) * j + j) % 256]

GcmEncrypt(key, iv, pt) ==
    LET ks == KeyStream(key, iv, Len(pt))
        ct == [i \in 1..Len(pt) |-> (pt[i] + ks[i]) % 256]
    IN ct \o GcmTag(key, iv, ct)

\* Whether decryption of data (ciphertext, then the 16-byte tag) verifies.
GcmVerifies(key, iv, data) ==
    /\ Len(data) >= 16
    /\ Slice(data, Len(data) - 16, Len(data))
         = GcmTag(key, iv, Slice(data, 0, Len(data) - 16))

GcmDecrypt(key, iv, data) ==
    LET n == Len(data) - 16
        ks == KeyStream(key, iv, n)
    IN [i \in 1..n |-> (data[i] - ks[i]) % 256]

(***************************************************************************)
(* kdf and decryptPayload (src/app.js 176-236)                             *)
(***************************************************************************)
Zeros(n) == [i \in 1..n |-> 0]

\* TypedArray.prototype.set(source, offset)
TypedSet(target, source, offset) ==
    [i \in 1..Len(target) |->
        IF i > offset /\ i <= offset + Len(source) THEN source[i - offset]
        ELSE target[i]]

\* The counter placed after the ephemeral key instead of before it.
kdfInput_CounterLast(secret, ephemeralKey) ==
    TypedSet(TypedSet(TypedSet(Zeros(Len(secret) + 4 + Len(ephemeralKey)),
                               secret, 0),
                      ephemeralKey, Len(secret)),
             <<0, 0, 0, 1>>, Len(secret) + Len(ephemeralKey))

\* kdf: combined = secret, then 0 0 0 1, then ephemeralKey
kdfInput(secret, ephemeralKey) ==
    TypedSet(TypedSet(TypedSet(Zeros(Len(secret) + 4 + Len(ephemeralKey)),
                               secret, 0),
                      <<0, 0, 0, 1>>, Len(secret)),
             ephemeralKey, Len(secret) + 4)

\* const decryptionKey = symmetricKey.slice(0, 16)
decryptionKey(symmetricKey) == Slice(symmetricKey, 0, 16)

\* const iv = symmetricKey.slice(16)
iv(symmetricKey) == Slice(symmetricKey, 16, Len(symmetricKey))

\* dataToDecrypt / combined: cipherText, then tag
dataToDecrypt(cipherText, t) ==
    TypedSet(TypedSet(Zeros(Len(cipherText) + Len(t)), cipherText, 0),
             t, Len(cipherText))

NoBackendError == "No AES-GCM decryption available. Access via localhost or HTTPS."

\* One backend invocation with the arguments decryptPayload hands it.
BackendCall(name, symmetricKey, cipherText, t) ==
    LET k == decryptionKey(symmetricKey)
        v == iv(symmetricKey)
        data == dataToDecrypt(cipherText, t)
        ok == GcmVerifies(k, v, data)
    IN [backend |-> name, key |-> k, iv |-> v, data |-> data,
        returned |-> ok,
        threw |-> IF ok THEN "none"
                  ELSE IF name = "platform" THEN "OperationError"
                  ELSE "invalid tag",
        plaintext |-> IF ok THEN GcmDecrypt(k, v, data) ELSE <<>>]

(***************************************************************************)
(* Device identity: getHashedAdvertisementKey (src/app.js 138-159).  A     *)
(* function that can throw returns [threw, value]: threw is "none" and     *)
(* value the return value, or threw is the error and value is empty.       *)
(***************************************************************************)
Returned(v) == [threw |-> "none", value |-> v]

Thrown(e) == [threw |-> e, value |-> <<>>]

\* b.toString(16).padStart(2, '0'): '0'-'9', 'a'-'f'
HexChar(d) == IF d < 10 THEN 48 + d ELSE 87 + d

\* bytesToHex (src/app.js 80-82)
bytesToHex(bytes) ==
    [i \in 1..(2 * Len(bytes)) |->
        IF i % 2 = 1 THEN HexChar(bytes[(i + 1) \div 2] \div 16)
        ELSE HexChar(bytes[i \div 2] % 16)]

\* The library's reading of a hex string.
HexValue(c) == IF c >= 97 THEN c - 87 ELSE c - 48

HexBytes(hex) ==
    [i \in 1..(Len(hex) \div 2) |->
        HexValue(hex[2 * i - 1]) * 16 + HexValue(hex[2 * i])]

InvalidPrivateKeyError == "invalid private key"

\* secp224r1.getPublicKey(privHex) stand-in: a private key is 28 bytes; the
\* public key comes compressed, a parity prefix (2 or 3) and X (28 bytes).
getPublicKey(privHex) ==
    LET priv == HexBytes(privHex)
    IN IF Len(privHex) # 56 THEN Thrown(InvalidPrivateKeyError)
       ELSE Returned(<<2 + (Mix(priv) % 2)>>
                        \o [i \in 1..28 |-> (priv[i] * 9 + i * 7 + 1) % 256])

\* derivePublicKeyFromPrivate (src/app.js 138-146)
derivePublicKeyFromPrivate(w, privateKeyBytes) ==
    IF ~w.secp224r1 THEN Thrown(CurveNotLoadedError)
    ELSE getPublicKey(bytesToHex(privateKeyBytes))

\* The public key returned whole, prefix byte included.
getAdvertisementKey_KeepPrefix(w, privateKeyBase64) ==
    IF ~B64Valid(privateKeyBase64) THEN Thrown("InvalidCharacterError")
    ELSE derivePublicKeyFromPrivate(w, base64ToBytes(privateKeyBase64))

\* getAdvertisementKey (src/app.js 149-152): publicKeyBytes.slice(1)
getAdvertisementKey(w, privateKeyBase64) ==
    IF ~B64Valid(privateKeyBase64) THEN Thrown("InvalidCharacterError")
    ELSE LET publicKeyBytes ==
                 derivePublicKeyFromPrivate(w, base64ToBytes(privateKeyBase64))
         IN IF publicKeyBytes.threw # "none" THEN publicKeyBytes
            ELSE Returned(Slice(publicKeyBytes.value, 1, Len(publicKeyBytes.value)))

\* sha256 (src/app.js 85-100)
sha256(w, data) ==
    IF Sha256Backend(w) = "none" THEN Thrown(NoSha256Error)
    ELSE Returned(Digest(data))

\* The advertisement key itself, as base64, in place of its hash.
getHashedAdvertisementKey_Unhashed(w, privateKeyBase64) ==
    LET key == getAdvertisementKey(w, privateKeyBase64)
    IN IF key.threw # "none" THEN key ELSE Returned(bytesToBase64(key.value))

\* getHashedAdvertisementKey (src/app.js 155-159)
getHashedAdvertisementKey(w, privateKeyBase64) ==
    LET advKey == getAdvertisementKey(w, privateKeyBase64)
    IN IF advKey.threw # "none" THEN advKey
       ELSE LET hash == sha256(w, advKey.value)
            IN IF hash.threw # "none" THEN hash
               ELSE Returned(bytesToBase64(hash.value))

(***************************************************************************)
(* Inputs: runtimes, device keys and reports                               *)
(***************************************************************************)
\* Plaintexts of 10 - MaxExtra .. 10 + MaxExtra bytes are encrypted into reports,
\* so payloads of 88 - MaxExtra .. 89 + MaxExtra bytes reach decryptReport.
MaxExtra == 1

\* Each sampled number lies within NearRange units of a centre.
NearRange == 1

Near(centres) == {c + d : c \in centres, d \in (-NearRange)..NearRange}

UTCZone == CHOOSE z \in Zones : z.name = "UTC"

NewYorkZone == CHOOSE z \in Zones : z.name = "America/New_York"

\* The globals the functions test: window.crypto.subtle, window.nobleGcm,
\* window.nobleSha256, window.secp224r1.
Window(subtle, nobleGcm, nobleSha256, secp224r1) ==
    [subtle |-> subtle, nobleGcm |-> nobleGcm,
     nobleSha256 |-> nobleSha256, secp224r1 |-> secp224r1]

SecureContext == Window(TRUE, TRUE, TRUE, TRUE)

Windows ==
    { SecureContext,
      Window(FALSE, TRUE, TRUE, TRUE),     \* plain http: no crypto.subtle
      Window(TRUE, FALSE, TRUE, TRUE),     \* no software AES-GCM
      Window(FALSE, FALSE, TRUE, TRUE),    \* no AES-GCM at all
      Window(FALSE, TRUE, FALSE, TRUE),    \* no SHA-256 at all
      Window(TRUE, TRUE, TRUE, FALSE) }    \* curve not loaded

\* Device private keys (28 bytes), stored as base64 text.
KeyBytes(k) == [i \in 1..28 |-> (k * 17 + i * 3) % 256]

PrivateKeys == {bytesToBase64(KeyBytes(k)) : k \in 1..2}

OwnerKey == bytesToBase64(KeyBytes(1))

\* An ephemeral public point; a bad one has a Y that is not on the curve.
EphemeralPoint(seed, onCurve) ==
    LET x == [i \in 1..28 |-> (seed + i * 11) % 256]
        y == PointY(x)
    IN <<4>> \o x \o (IF onCurve THEN y ELSE [y EXCEPT ![28] = (y[28] + 1) % 256])

Plaintext(lat, lon, acc, status) ==
    Int32Bytes(lat) \o Int32Bytes(lon) \o <<acc, status>>

\* A location plaintext cut or extended to n bytes.
PlaintextOfLen(n) ==
    SubSeq(Plaintext(481234567, -1225000000, 25, 96) \o [i \in 1..16 |-> 200 + i],
           1, n)

\* What a finder device uploads for the owner key: seen-timestamp, confidence,
\* ephemeral point, ciphertext and tag, encrypted as the owner will derive it.
SenderPayload(seen, conf, eph, plain, ownerBytes) ==
    LET secret == Slice(getSharedSecret(ownerBytes, eph), 1, 29)
        dk == Digest(secret \o <<0, 0, 0, 1>> \o eph)
    IN Int32Bytes(seen) \o <<conf>> \o eph
         \o GcmEncrypt(SubSeq(dk, 1, 16), SubSeq(dk, 17, 32), plain)

InsertAt(bytes, index, b) ==
    SubSeq(bytes, 1, index) \o <<b>> \o SubSeq(bytes, index + 1, Len(bytes))

\* The last tag byte changed.
Tamper(bytes) ==
    [bytes EXCEPT ![Len(bytes)] = (bytes[Len(bytes)] + 1) % 256]

\* The byte inserted on the way, as a sequence: none, or one byte.
NotInjected == <<>>

InjectedBytes == {<<0>>, <<4>>, <<255>>}

\* origin: the payload as uploaded (base), the byte inserted at index 4 on the
\* way (or NotInjected), whether the tag was tampered with, and the bytes that
\* reach decryptReport.
Origin(base, injected, tampered) ==
    LET sent == IF tampered THEN Tamper(base) ELSE base
    IN [base |-> sent, injected |-> injected,
        tampered |-> tampered, garbled |-> FALSE,
        wire |-> IF injected = NotInjected THEN sent
                 ELSE InsertAt(sent, 4, injected[1])]

\* A garbled report has '!' for the first character of its base64 text.
ReportOf(o) ==
    LET text == bytesToBase64(o.wire)
    IN [payload |-> IF o.garbled THEN [text EXCEPT ![1] = 33] ELSE text,
        datePublished |-> 0]

\* A report for the first device key: confidence 7, a plaintext of n bytes.
SampleUpload(seen, onCurve, n) ==
    SenderPayload(seen, 7, EphemeralPoint(9, onCurve), PlaintextOfLen(n), KeyBytes(1))

PipelineSeen == {0, 741528000}

PipelineOrigins ==
    { Origin(SampleUpload(seen, onCurve, n), injected, tampered) :
        seen \in PipelineSeen, onCurve \in BOOLEAN,
        n \in (10 - MaxExtra)..(10 + MaxExtra),
        injected \in {NotInjected} \cup InjectedBytes, tampered \in BOOLEAN }

\* Payloads damaged on the way: cut to 3 bytes (no timestamp) or to 70 bytes
\* (no tag), or with text that is not base64.
PlainOrigin == Origin(SampleUpload(0, TRUE, 10), NotInjected, FALSE)

CutOrigins ==
    { [PlainOrigin EXCEPT !.wire = SubSeq(PlainOrigin.wire, 1, n)] : n \in {3, 70} }
      \cup { [PlainOrigin EXCEPT !.garbled = TRUE] }

\* The frame of decryptReport before its first action.
NotYet == <<>>

InitLocals ==
    /\ payloadData = NotYet
    /\ ephemeralKeyBytes = NotYet
    /\ encData = NotYet
    /\ tag = NotYet
    /\ timestamp = NotYet
    /\ confidence = NotYet
    /\ sharedSecret = NotYet
    /\ derivedKey = NotYet
    /\ hashInputs = <<>>
    /\ backendCalls = <<>>
    /\ decryptedPayload = NotYet
    /\ result = "none"
    /\ error = "none"

\* A toast: its type, its text with the interpolated values taken out, the
\* quantities it shows by name, and the error message it quotes.
Toast(type, text, shows, detail) ==
    [type |-> type, text |-> text, shows |-> shows, detail |-> detail]

NoToast == Toast("none", "", {}, "")

\* state.settings as the page starts with them (src/app.js 11-18); the user
\* name and the password as code sequences.
DefaultSettings ==
    [endpointUrl |-> "http://localhost:6176", endpointUser |-> <<>>,
     endpointPass |-> <<>>, daysToFetch |-> 7, fetchOnStartup |-> TRUE,
     darkMode |-> FALSE]

\* The local variables of a fetchLocations call that has not begun.
IdleFrame(n) ==
    [run |-> n, fpc |-> "idle", fetchDays |-> NotYet, activeAccessories |-> NotYet,
     device |-> NotYet, hashedKey |-> NotYet, reports |-> NotYet,
     reportIndex |-> NotYet, allLocations |-> NotYet]

\* No call of fetchLocationReportsFromEndpoint being followed step by step.
CallIdle ==
    /\ epc = "idle"
    /\ timer = "unset"
    /\ elapsed = 0
    /\ received = NotYet
    /\ outcome = NotYet

\* The first fetchLocations call is the one at hand, no other has begun, and
\* the user has done nothing yet.
SessionIdle ==
    /\ run = 1
    /\ parked = <<>>
    /\ outbound = <<>>
    /\ ops = 0
    /\ importOffer = NotYet

\* const state = { accessories: [], locations: [], settings: {...}, markers: [] }
\* and no fetchLocations call in progress.
AppIdle ==
    /\ CallIdle
    /\ SessionIdle
    /\ accessories = <<>>
    /\ settings = DefaultSettings
    /\ locations = <<>>
    /\ markers = <<>>
    /\ toast = NoToast
    /\ console = <<>>
    /\ fpc = "idle"
    /\ fetchDays = NotYet
    /\ activeAccessories = NotYet
    /\ device = NotYet
    /\ hashedKey = NotYet
    /\ reports = NotYet
    /\ reportIndex = NotYet
    /\ allLocations = NotYet
    /\ requests = <<>>
    /\ attempts = <<>>

Init ==
    /\ pc = "frame"
    /\ tz \in {UTCZone, NewYorkZone}
    /\ window \in Windows
    /\ origin \in PipelineOrigins \cup CutOrigins
    /\ report = ReportOf(origin)
    /\ privateKey \in PrivateKeys
    /\ InitLocals
    /\ AppIdle

(***************************************************************************)
(* decryptReport (src/app.js 239-268), one action per step between awaits  *)
(***************************************************************************)
\* catch (error) { console.error(...); throw error; }
Throw(e) ==
    /\ error' = e
    /\ result' = "none"
    /\ pc' = "done"

\* The byte at index 4 kept and the one at index 5 dropped.
CorrectLength_DropIndex5(data) ==
    LET modified == Zeros(Len(data) - 1)
    IN TypedSet(TypedSet(modified, Slice(data, 0, 5), 0),
                Slice(data, 6, Len(data)), 5)

\* if (payloadData.length > 88) { modified = new Uint8Array(length - 1);
\*   modified.set(payloadData.slice(0, 4), 0); modified.set(payloadData.slice(5), 4); }
CorrectLength(data) ==
    LET modified == Zeros(Len(data) - 1)
    IN TypedSet(TypedSet(modified, Slice(data, 0, 4), 0),
                Slice(data, 5, Len(data)), 4)

CorrectedPayload(data) ==
    IF Len(data) > 88 THEN CorrectLength(data) ELSE data

\* payloadData[4] (undefined past the end)
ByteAt(data, index) ==
    IF index < Len(data) THEN data[index + 1] ELSE "undefined"

\* Lines 241-257: decode, correct, slice, timestamp, confidence.
Frame ==
    /\ pc = "frame"
    /\ IF ~B64Valid(report.payload)
         THEN /\ Throw("InvalidCharacterError")
              /\ UNCHANGED frameVars
         ELSE LET data == CorrectedPayload(base64ToBytes(report.payload))
              IN /\ payloadData' = data
                 /\ ephemeralKeyBytes' = Slice(data, 5, 62)
                 /\ encData' = Slice(data, 62, 72)
                 /\ tag' = Slice(data, 72, Len(data))
                 /\ IF InBounds(data, 0, 4)
                      THEN /\ timestamp' = SeenTimestamp(tz, data)
                           /\ confidence' = ByteAt(data, 4)
                           /\ pc' = "ecdh"
                           /\ UNCHANGED <<result, error>>
                      ELSE /\ Throw("RangeError")
                           /\ UNCHANGED <<timestamp, confidence>>
    /\ UNCHANGED <<inputVars, cryptoVars>>
    /\ UNCHANGED <<appVars, fetchVars, callVars, sessionVars>>

\* Line 259: await ecdh(ephemeralKeyBytes, privateKeyBase64)
Ecdh ==
    /\ pc = "ecdh"
    /\ IF ~window.secp224r1
         THEN Throw(CurveNotLoadedError) /\ UNCHANGED sharedSecret
         ELSE IF ~ValidPoint(ephemeralKeyBytes)
         THEN Throw("bad point") /\ UNCHANGED sharedSecret
         ELSE /\ sharedSecret' = ecdh(ephemeralKeyBytes, base64ToBytes(privateKey))
              /\ pc' = "kdf"
              /\ UNCHANGED <<result, error>>
    /\ UNCHANGED <<inputVars, frameVars, derivedKey, hashInputs, backendCalls,
                   decryptedPayload>>
    /\ UNCHANGED <<appVars, fetchVars, callVars, sessionVars>>

\* Line 260: await kdf(sharedSecret, ephemeralKeyBytes), which is one sha256 call
Kdf ==
    /\ pc = "kdf"
    /\ IF Sha256Backend(window) = "none"
         THEN Throw(NoSha256Error) /\ UNCHANGED <<derivedKey, hashInputs>>
         ELSE LET combined == kdfInput(sharedSecret, ephemeralKeyBytes)
              IN /\ hashInputs' = Append(hashInputs,
                        [backend |-> Sha256Backend(window), input |-> combined])
                 /\ derivedKey' = Digest(combined)
                 /\ pc' = "decrypt"
                 /\ UNCHANGED <<result, error>>
    /\ UNCHANGED <<inputVars, frameVars, sharedSecret, backendCalls, decryptedPayload>>
    /\ UNCHANGED <<appVars, fetchVars, callVars, sessionVars>>

\* The platform call returned although decryptPayload goes on to the fallback.
AfterPlatform_AlwaysFallback(call) == "fallback"

\* return new Uint8Array(decrypted) | catch (e) { console.warn(...) }
AfterPlatform(call) == IF call.returned THEN "decode" ELSE "fallback"

\* return decrypted | catch (e) { console.error(...) }
AfterSoftware(call) == IF call.returned THEN "decode" ELSE "nobackend"

\* Lines 190-218: window.crypto.subtle importKey and decrypt
WebCryptoDecrypt ==
    /\ pc = "decrypt"
    /\ window.subtle
    /\ LET call == BackendCall("platform", derivedKey, encData, tag)
       IN /\ backendCalls' = Append(backendCalls, call)
          /\ decryptedPayload' =
                IF call.returned THEN call.plaintext ELSE decryptedPayload
          /\ pc' = AfterPlatform(call)
    /\ UNCHANGED <<inputVars, frameVars, sharedSecret, derivedKey, hashInputs,
                   result, error>>
    /\ UNCHANGED <<appVars, fetchVars, callVars, sessionVars>>

\* Line 190: no window.crypto.subtle
WebCryptoUnavailable ==
    /\ pc = "decrypt"
    /\ ~window.subtle
    /\ pc' = "fallback"
    /\ UNCHANGED <<inputVars, frameVars, cryptoVars, result, error>>
    /\ UNCHANGED <<appVars, fetchVars, callVars, sessionVars>>

\* Lines 220-233: window.nobleGcm(decryptionKey, iv).decrypt(combined)
NobleDecrypt ==
    /\ pc = "fallback"
    /\ window.nobleGcm
    /\ LET call == BackendCall("software", derivedKey, encData, tag)
       IN /\ backendCalls' = Append(backendCalls, call)
          /\ decryptedPayload' =
                IF call.returned THEN call.plaintext ELSE decryptedPayload
          /\ pc' = AfterSoftware(call)
    /\ UNCHANGED <<inputVars, frameVars, sharedSecret, derivedKey, hashInputs,
                   result, error>>
    /\ UNCHANGED <<appVars, fetchVars, callVars, sessionVars>>

\* Line 220: no window.nobleGcm
NobleUnavailable ==
    /\ pc = "fallback"
    /\ ~window.nobleGcm
    /\ pc' = "nobackend"
    /\ UNCHANGED <<inputVars, frameVars, cryptoVars, result, error>>
    /\ UNCHANGED <<appVars, fetchVars, callVars, sessionVars>>

\* Line 235: throw new Error('No AES-GCM decryption available. ...')
ThrowNoBackend ==
    /\ pc = "nobackend"
    /\ Throw(NoBackendError)
    /\ UNCHANGED <<inputVars, frameVars, cryptoVars>>
    /\ UNCHANGED <<appVars, fetchVars, callVars, sessionVars>>

\* Line 263: return decodePayload(decryptedPayload, report.datePublished, timestamp, confidence)
DecodePayload ==
    /\ pc = "decode"
    /\ IF DecodeInBounds(decryptedPayload)
         THEN /\ result' = decodePayload(decryptedPayload, report.datePublished,
                                          timestamp, confidence)
              /\ error' = "none"
              /\ pc' = "done"
         ELSE Throw("RangeError")
    /\ UNCHANGED <<inputVars, frameVars, cryptoVars>>
    /\ UNCHANGED <<appVars, fetchVars, callVars, sessionVars>>

Next ==
    \/ Frame
    \/ Ecdh
    \/ Kdf
    \/ WebCryptoDecrypt
    \/ WebCryptoUnavailable
    \/ NobleDecrypt
    \/ NobleUnavailable
    \/ ThrowNoBackend
    \/ DecodePayload

Spec == Init /\ [][Next]_vars

(***************************************************************************)
(* SpecDecode: decodePayload on sampled plaintexts (decryptReport as       *)
(* decryptPayload returns)                                                 *)
(***************************************************************************)
\* Raw latitudes, as signed 32-bit values (n < 0 stands for raw 2^32 + n).
LatSamples == Near({0, 900000000, -900000000, 1000000000, -2000000000})

LonSamples == Near({0, 1800000000, -1800000000})

StatusSamples == {32 * k + r : k \in 0..7, r \in {0, 1}}

AccuracySamples == {0, 255}

DecodeInit ==
    /\ pc = "decode"
    /\ tz = UTCZone
    /\ window = SecureContext
    /\ origin = PlainOrigin
    /\ report = ReportOf(origin)
    /\ privateKey = OwnerKey
    /\ payloadData = NotYet
    /\ ephemeralKeyBytes = NotYet
    /\ encData = NotYet
    /\ tag = NotYet
    /\ timestamp = DateUTC2001
    /\ confidence = 7
    /\ sharedSecret = NotYet
    /\ derivedKey = NotYet
    /\ hashInputs = <<>>
    /\ backendCalls = <<>>
    /\ \E lat \in LatSamples, lon \in LonSamples,
          acc \in AccuracySamples, status \in StatusSamples :
            decryptedPayload = Plaintext(lat, lon, acc, status)
    /\ result = "none"
    /\ error = "none"
    /\ AppIdle

DecodeNext == DecodePayload

SpecDecode == DecodeInit /\ [][DecodeNext]_vars

(***************************************************************************)
(* SpecTime: the framing of decryptReport for sampled seen-timestamps and  *)
(* time zones                                                              *)
(***************************************************************************)
\* Seen-timestamps as signed 32-bit values (n < 0 stands for 2^32 + n): the
\* first seconds, a minute, a day, July 2001, January and July 2024, July 2025
\* and the last values.
SeenSamples ==
    Near({NearRange, 60, 86400, 15681600, 726969600, 741528000, 773064000,
          -1 - NearRange})

TimeInit ==
    /\ pc = "frame"
    /\ tz \in Zones
    /\ window = SecureContext
    /\ \E seen \in SeenSamples :
          origin = Origin(SampleUpload(seen, TRUE, 10), NotInjected, FALSE)
    /\ report = ReportOf(origin)
    /\ privateKey = OwnerKey
    /\ InitLocals
    /\ AppIdle

TimeNext == Frame

SpecTime == TimeInit /\ [][TimeNext]_vars

(***************************************************************************)
(* decryptPayload and decryptReport as functions of their arguments and    *)
(* the runtime: what the steps above compute from pc = "frame" to "done"   *)
(***************************************************************************)
\* decryptPayload (src/app.js 186-236)
decryptPayload(w, cipherText, symmetricKey, t) ==
    LET platform == BackendCall("platform", symmetricKey, cipherText, t)
        software == BackendCall("software", symmetricKey, cipherText, t)
    IN IF w.subtle /\ AfterPlatform(platform) = "decode"
         THEN Returned(platform.plaintext)
       ELSE IF w.nobleGcm /\ AfterSoftware(software) = "decode"
         THEN Returned(software.plaintext)
       ELSE Thrown(NoBackendError)

\* decryptReport (src/app.js 239-268)
decryptReport(w, zone, rep, privateKeyBase64) ==
    IF ~B64Valid(rep.payload) THEN Thrown("InvalidCharacterError")
    ELSE
      LET data == CorrectedPayload(base64ToBytes(rep.payload))
          eph == Slice(data, 5, 62)
          enc == Slice(data, 62, 72)
          t == Slice(data, 72, Len(data))
          priv == base64ToBytes(privateKeyBase64)
      IN IF ~InBounds(data, 0, 4) THEN Thrown("RangeError")
         ELSE IF ~w.secp224r1 THEN Thrown(CurveNotLoadedError)
         ELSE IF Len(priv) # 28 THEN Thrown(InvalidPrivateKeyError)
         ELSE IF ~ValidPoint(eph) THEN Thrown("bad point")
         ELSE IF Sha256Backend(w) = "none" THEN Thrown(NoSha256Error)
         ELSE
           LET symmetricKey == Digest(kdfInput(ecdh(eph, priv), eph))
               plain == decryptPayload(w, enc, symmetricKey, t)
           IN IF plain.threw # "none" THEN plain
              ELSE IF ~DecodeInBounds(plain.value) THEN Thrown("RangeError")
              ELSE Returned(decodePayload(plain.value, rep.datePublished,
                                          SeenTimestamp(zone, data), ByteAt(data, 4)))

\* The steps of decryptReport end as the function says.
PipelineAgrees ==
    pc = "done" =>
        LET r == decryptReport(window, tz, report, privateKey)
        IN /\ error = r.threw
           /\ error = "none" => result = r.value

(***************************************************************************)
(* fetchLocations (src/app.js 1571-1625): devices, the endpoint's answers  *)
(***************************************************************************)
\* A response holds the first MaxReports reports of what the endpoint has.
MaxReports == 2

\* Icons as sequences of code points: the default label emoji with its
\* variation selector, and the word 'backpack' typed into the icon field.
LabelIcon == <<127991, 65039>>

WordIcon == <<98, 97, 99, 107, 112, 97, 99, 107>>

\* An accessory as saveAccessory stores it (the fields fetchLocations reads);
\* id is Date.now().toString().
Accessory(n, name, key, active, icon) ==
    [id |-> IF n = 1 THEN "1718000000001" ELSE "1718000000002",
     name |-> name, privateKey |-> key, active |-> active, icon |-> icon]

\* A key of 27 bytes typed in place of a private key.
ShortKey == bytesToBase64(SubSeq(KeyBytes(1), 1, 27))

Key(k) == bytesToBase64(KeyBytes(k))

\* state.accessories when fetchLocations starts: two devices; one of them
\* inactive; none active; the same tag added twice; a device with a short
\* key; a device with a word for an icon.
AccessoryLists ==
    { <<Accessory(1, "Keys", Key(1), TRUE, LabelIcon),
        Accessory(2, "Bike", Key(2), TRUE, LabelIcon)>>,
      <<Accessory(1, "Keys", Key(1), FALSE, LabelIcon),
        Accessory(2, "Bike", Key(2), TRUE, LabelIcon)>>,
      <<Accessory(1, "Keys", Key(1), FALSE, LabelIcon)>>,
      <<Accessory(1, "Keys", Key(1), TRUE, LabelIcon),
        Accessory(2, "Keys again", Key(1), TRUE, LabelIcon)>>,
      <<Accessory(1, "Old", ShortKey, TRUE, LabelIcon),
        Accessory(2, "Bike", Key(2), TRUE, LabelIcon)>>,
      <<Accessory(1, "Keys", Key(1), TRUE, LabelIcon),
        Accessory(2, "Bag", Key(2), TRUE, WordIcon)>> }

\* The id the endpoint files the reports of device key k under.
ReportId(k) == getHashedAdvertisementKey(SecureContext, Key(k)).value

\* A report a finder uploaded for device key k: seen-timestamp and latitude.
Sighting(k, seen, lat) ==
    [id |-> ReportId(k),
     payload |-> bytesToBase64(
         SenderPayload(seen, 7, EphemeralPoint(9, TRUE),
                       Plaintext(lat, -1225000000, 25, 96), KeyBytes(k))),
     datePublished |-> 0]

\* The same report with its last tag byte changed.
Damaged(rep) ==
    [rep EXCEPT !.payload = bytesToBase64(Tamper(base64ToBytes(rep.payload)))]

Early(k) == Sighting(k, 100, 481000000)

EarlyElsewhere(k) == Sighting(k, 100, 482000000)

Late(k) == Sighting(k, 250 - 50 * k, 483000000)

\* What the endpoint may hold, in the order it would list it: newest first,
\* two sightings of one second, a damaged report first or in the middle, and
\* reports filed under the id of another device.
Holdings ==
    { <<Late(1), Early(1), EarlyElsewhere(1)>>,
      <<EarlyElsewhere(1), Early(1), Late(1)>>,
      <<Damaged(Late(1)), Early(1), Late(1)>>,
      <<Early(1), Damaged(Late(1)), Late(1)>>,
      <<Late(2), Early(2), EarlyElsewhere(2)>>,
      <<Early(2), Late(1), Damaged(Early(2))>> }

ReportLists == { SubSeq(h, 1, n) : h \in Holdings, n \in 0..MaxReports }

\* What fetch() and response.json() give: an HTTP response (status; for 200
\* whether the body has results, and the results), an abort by the 30 s
\* timer, or a network failure.
\* The body is a JSON object unless said otherwise ("null": the JSON text
\* null; "html": not JSON); text is what response.text() gives for an error
\* page.
Response(kind, status, hasResults, results) ==
    [kind |-> kind, status |-> status, hasResults |-> hasResults, results |-> results,
     body |-> "object",
     text |-> IF kind = "http" /\ status = 500 THEN "Internal Server Error" ELSE ""]

\* A response whose body is a page of HTML.
HtmlPage(status) ==
    [Response("http", status, FALSE, <<>>) EXCEPT !.body = "html", !.text = "<html>"]

\* A response whose body is the JSON text null.
NullBody(status) ==
    [Response("http", status, FALSE, <<>>) EXCEPT !.body = "null", !.text = "null"]

AbortResponse == Response("abort", 0, FALSE, <<>>)

NetworkFailure == Response("network", 0, FALSE, <<>>)

Responses ==
    { Response("http", 200, TRUE, list) : list \in ReportLists }
      \cup { Response("http", 200, FALSE, <<>>), HtmlPage(200), NullBody(200) }
      \cup { Response("http", status, FALSE, <<>>) : status \in {401, 404, 500} }
      \cup { AbortResponse, NetworkFailure }

\* Lines 343-349: the statuses answered without reading the body; 404 is
\* treated like any other status.
StatusFailure_AuthOnly(status) ==
    IF status = 401 THEN "Authentication failed. Check your username/password."
    ELSE "none"

\* Lines 343-349: the statuses answered without reading the body.
StatusFailure(status) ==
    IF status = 401 THEN "Authentication failed. Check your username/password."
    ELSE IF status = 404 THEN "Endpoint not found. Check your URL."
    ELSE "none"

\* Lines 351-357, once the body has arrived: the error text of another status,
\* response.json() of a body that is not JSON, data.results of null (a
\* TypeError), or data.results || [].
BodyOutcome(response) ==
    IF response.status # 200 THEN Thrown("HTTP ${response.status}: ${errorText}")
    ELSE IF response.body = "html"
      THEN Thrown("Unexpected token '<' is not valid JSON")
    ELSE IF response.body = "null"
      THEN Thrown("Cannot read properties of null (reading 'results')")
    ELSE IF response.hasResults THEN Returned(response.results)
    ELSE Returned(<<>>)

\* Lines 341-349 and 358-363, when fetch() has settled: the message thrown
\* without reading the body (the abort by the timer, a rejection passed on,
\* 401, 404), or "none".
HeadFailure(response) ==
    IF response.kind = "abort"
      THEN "Request timed out (30s). Check if endpoint is running."
    ELSE IF response.kind = "network" THEN "Failed to fetch"
    ELSE StatusFailure(response.status)

\* Lines 334-363: what the call returns or throws once fetch() has been
\* called, by what fetch() and the body give.
ResponseOutcome(response) ==
    IF HeadFailure(response) # "none" THEN Thrown(HeadFailure(response))
    ELSE BodyOutcome(response)

\* 'Basic ' in front of the credentials
BasicPrefix == <<66, 97, 115, 105, 99, 32>>

\* btoa(text): the base64 of the code units as bytes; a code unit above 0xFF
\* throws InvalidCharacterError.
btoa(text) ==
    IF \E i \in 1..Len(text) : text[i] > 255
      THEN Thrown("InvalidCharacterError")
    ELSE Returned(bytesToBase64(text))

\* 'Basic ' + credentials
Basic(credentials) ==
    IF credentials.threw # "none" THEN credentials
    ELSE Returned(BasicPrefix \o credentials.value)

\* Lines 317-320: headers['Authorization'], <<>> when it is not set; btoa
\* stands before the try block, so what it throws leaves the function before
\* the timer is set and before fetch() is called.
Authorization(s) ==
    IF s.endpointUser # <<>> \/ s.endpointPass # <<>>
      THEN Basic(btoa(s.endpointUser \o <<58>> \o s.endpointPass))
    ELSE Returned(<<>>)

\* fetchLocationReportsFromEndpoint (src/app.js 310-364) with these settings,
\* by what fetch() and the body give when the request is sent
fetchLocationReportsFromEndpoint(s, response) ==
    IF Authorization(s).threw # "none" THEN Thrown(Authorization(s).threw)
    ELSE ResponseOutcome(response)

\* Lines 311-339: what fetch() sends: the url, the Authorization header, and
\* the body JSON.stringify({ ids: hashedKeys, days: daysToFetch })
RequestTo(s, hashedKeys, daysToFetch) ==
    [url |-> s.endpointUrl, authorization |-> Authorization(s).value,
     ids |-> hashedKeys, days |-> daysToFetch]

\* An endpoint of the user's own, with credentials, and a second one.
HomeUrl == "https://haystack.example/query"

OtherUrl == "http://192.168.1.20:6176"

HomeSettings ==
    [endpointUrl |-> HomeUrl, endpointUser |-> <<109, 101>>,
     endpointPass |-> <<112, 119>>, daysToFetch |-> 3, fetchOnStartup |-> TRUE,
     darkMode |-> FALSE]

OtherSettings ==
    [endpointUrl |-> OtherUrl, endpointUser |-> <<>>, endpointPass |-> <<>>,
     daysToFetch |-> 1, fetchOnStartup |-> TRUE, darkMode |-> FALSE]

\* The user's own endpoint without the fetch at startup.
QuietSettings == [HomeSettings EXCEPT !.fetchOnStartup = FALSE]

\* The defaults with the fetch at startup switched off in an earlier visit
\* (loadSettings, lines 1058-1066): the page rests until the user asks for a
\* fetch.
ManualSettings == [DefaultSettings EXCEPT !.fetchOnStartup = FALSE]

\* Credentials with a character outside Latin-1: the password is the euro
\* sign, U+20AC.
EuroSettings ==
    [ManualSettings EXCEPT !.endpointUser = <<109, 101>>, !.endpointPass = <<8364>>]

\* The answer that has not come yet.
Pending == Response("pending", 0, FALSE, <<>>)

\* What the server at the url may answer to a query for these ids: anything
\* at the default address; at the user's own endpoint the latest report of
\* the device or an error page; at the second one an earlier report.
Served(url, ids) ==
    IF url = HomeUrl
      THEN { Response("http", 200, TRUE, <<Late(k)>>) :
                 k \in {n \in 1..2 : <<ReportId(n)>> = ids} }
             \cup { Response("http", 500, FALSE, <<>>) }
    ELSE IF url = OtherUrl
      THEN { Response("http", 200, TRUE, <<EarlyElsewhere(k)>>) :
                 k \in {n \in 1..2 : <<ReportId(n)>> = ids} }
             \cup { Response("http", 401, FALSE, <<>>) }
    ELSE Responses

\* allLocations.push({ accessoryId, accessoryName, lat, lng, timestamp, ... });
\* timestamp is getTime() of the Date, kept as <<day, sec>>.
Location(accessory, decrypted) ==
    [accessoryId |-> accessory.id, accessoryName |-> accessory.name,
     lat |-> decrypted.latitude, lng |-> decrypted.longitude,
     timestamp |-> decrypted.timestamp, accuracy |-> decrypted.accuracy,
     confidence |-> decrypted.confidence, batteryStatus |-> decrypted.batteryStatus]

\* (a, b) => a.timestamp - b.timestamp is negative
Before(a, b) == TLess(a.timestamp, b.timestamp)

\* x placed in front of the elements it does not come after (equal ones too).
InsertSorted_BeforeEqual(sorted, x) ==
    LET k == Cardinality({i \in 1..Len(sorted) : Before(sorted[i], x)})
    IN SubSeq(sorted, 1, k) \o <<x>> \o SubSeq(sorted, k + 1, Len(sorted))

\* x placed behind every element of a sorted list that does not come after it.
InsertSorted(sorted, x) ==
    LET k == Cardinality({i \in 1..Len(sorted) : ~Before(x, sorted[i])})
    IN SubSeq(sorted, 1, k) \o <<x>> \o SubSeq(sorted, k + 1, Len(sorted))

RECURSIVE SortByTimestamp(_)
\* allLocations.sort((a, b) => a.timestamp - b.timestamp): Array.prototype.sort
\* is stable.
SortByTimestamp(list) ==
    IF Len(list) <= 1 THEN list
    ELSE InsertSorted(SortByTimestamp(SubSeq(list, 1, Len(list) - 1)), list[Len(list)])

\* getDisplayIcon (src/app.js 38-45): the icon when it has 1 to 4 code points;
\* otherwise the function calls itself with the same argument until the stack
\* overflows.
IconShown(accessory) == accessory.icon # <<>> /\ Len(accessory.icon) <= 4

getDisplayIcon(accessory) ==
    IF IconShown(accessory) THEN Returned(accessory.icon)
    ELSE Thrown("Maximum call stack size exceeded")

\* The keys of locationsByAccessory, in order of insertion.
RECURSIVE AccessoryIds(_)
AccessoryIds(locs) ==
    IF locs = <<>> THEN <<>>
    ELSE LET rest == AccessoryIds(SubSeq(locs, 1, Len(locs) - 1))
             id == locs[Len(locs)].accessoryId
         IN IF \E i \in 1..Len(rest) : rest[i] = id THEN rest ELSE Append(rest, id)

\* The last location of the accessory in locs.
Latest(locs, id) ==
    locs[CHOOSE i \in 1..Len(locs) :
            /\ locs[i].accessoryId = id
            /\ \A j \in (i + 1)..Len(locs) : locs[j].accessoryId # id]

RECURSIVE MarkersFor(_, _, _)
\* The forEach of updateMapMarkers over the first n entries: the markers pushed,
\* and the error that ended it.
MarkersFor(ids, n, state) ==
    IF n = 0 THEN [threw |-> "none", value |-> <<>>]
    ELSE LET before == MarkersFor(ids, n - 1, state)
             found == {i \in 1..Len(state.accessories) :
                          state.accessories[i].id = ids[n]}
             accessory == state.accessories[CHOOSE i \in found : \A j \in found : i <= j]
             latest == Latest(state.locations, ids[n])
         IN IF before.threw # "none" \/ found = {} THEN before
            ELSE IF getDisplayIcon(accessory).threw # "none"
              THEN [before EXCEPT !.threw = getDisplayIcon(accessory).threw]
            ELSE [before EXCEPT !.value = Append(@,
                      [deviceId |-> ids[n], lat |-> latest.lat, lng |-> latest.lng])]

\* updateMapMarkers (src/app.js 1627-1677), state being accessories and locations
updateMapMarkers(state) ==
    LET ids == AccessoryIds(state.locations)
    IN MarkersFor(ids, Len(ids), state)

\* renderDevicesList (src/app.js 1299-1343): the error that ends it, or "none"
renderDevicesList(state) ==
    IF \E i \in 1..Len(state.accessories) : ~IconShown(state.accessories[i])
      THEN "Maximum call stack size exceeded"
    ELSE "none"

\* state.map.fitBounds(new L.featureGroup(state.markers).getBounds().pad(0.1))
fitBounds(group) == IF group = <<>> THEN "Bounds are not valid." ELSE "none"

\* console.error(`Failed to ... for ${accessory.name}:`, error)
Logged(scope, name, e) == [scope |-> scope, accessory |-> name, error |-> e]

(***************************************************************************)
(* SpecFetch: one fetchLocations call, one action per step: the start, the *)
(* identity of a device, the request sent, fetch() settled, the body read, *)
(* a report decrypted, the publication.  Yielded says at which of these    *)
(* positions the call has handed control back to the event loop.           *)
(***************************************************************************)
\* Runtimes of a page that has loaded: the curve and the software AES-GCM
\* are there, since the startup handler fills state.accessories and registers
\* the handlers only when waitForNobleCurves (lines 107-120) has seen both.
\* A secure context, plain http, plain http without the software SHA-256.
FetchWindows ==
    { SecureContext,
      Window(FALSE, TRUE, TRUE, TRUE),
      Window(FALSE, TRUE, FALSE, TRUE) }

FetchInit ==
    /\ pc = "idle"
    /\ tz = UTCZone
    /\ window \in FetchWindows
    /\ origin = PlainOrigin
    /\ report = ReportOf(origin)
    /\ privateKey = OwnerKey
    /\ InitLocals
    /\ CallIdle
    /\ SessionIdle
    /\ accessories \in AccessoryLists
    /\ settings \in {ManualSettings, EuroSettings}
    /\ locations = <<>>
    /\ markers = <<>>
    /\ toast = NoToast
    /\ console = <<>>
    /\ fpc = "idle"
    /\ fetchDays = NotYet
    /\ activeAccessories = NotYet
    /\ device = NotYet
    /\ hashedKey = NotYet
    /\ reports = NotYet
    /\ reportIndex = NotYet
    /\ allLocations = NotYet
    /\ requests = <<>>
    /\ attempts = <<>>

\* state.accessories.filter(a => a.active)
ActiveOf(list) ==
    LET RECURSIVE Keep(_)
        Keep(n) == IF n = 0 THEN <<>>
                   ELSE IF list[n].active THEN Append(Keep(n - 1), list[n])
                   ELSE Keep(n - 1)
    IN Keep(Len(list))

\* Lines 1572-1581: days, activeAccessories, the early return, allLocations = []
StartFetch ==
    /\ fpc = "idle"
    /\ fetchDays' = settings.daysToFetch
    /\ activeAccessories' = ActiveOf(accessories)
    /\ IF Len(ActiveOf(accessories)) = 0
         THEN /\ toast' = Toast("warning", "No active devices to fetch", {}, "")
              /\ fpc' = "done"
              /\ UNCHANGED <<device, allLocations>>
         ELSE /\ allLocations' = <<>>
              /\ device' = 1
              /\ fpc' = "identity"
              /\ UNCHANGED toast
    /\ UNCHANGED <<pipelineVars, callVars, sessionVars, accessories, settings, locations, markers, console,
                   hashedKey, reports, reportIndex, requests, attempts>>

\* The for-of loop ends with the first device.
AfterDevice_FirstOnly(d, n) == [fpc |-> "publish", device |-> d]

\* for (const accessory of activeAccessories): the next device, or the end of
\* the loop.
AfterDevice(d, n) ==
    IF d < n THEN [fpc |-> "identity", device |-> d + 1]
    ELSE [fpc |-> "publish", device |-> d]

\* catch (deviceError) { console.error(`Failed to fetch for ...`) }, or the end
\* of the device's reports
NextDevice ==
    LET next == AfterDevice(device, Len(activeAccessories))
    IN /\ fpc' = next.fpc
       /\ device' = next.device

\* Line 1585: await getHashedAdvertisementKey(accessory.privateKey)
DeriveIdentity ==
    /\ fpc = "identity"
    /\ LET accessory == activeAccessories[device]
           hashed == getHashedAdvertisementKey(window, accessory.privateKey)
       IN IF hashed.threw # "none"
            THEN /\ console' = Append(console,
                                      Logged("device", accessory.name, hashed.threw))
                 /\ NextDevice
                 /\ UNCHANGED hashedKey
            ELSE /\ hashedKey' = hashed.value
                 /\ fpc' = "query"
                 /\ UNCHANGED <<console, device>>
    /\ UNCHANGED <<pipelineVars, callVars, sessionVars, accessories, settings, locations, markers, toast,
                   fetchDays, activeAccessories, reports, reportIndex, allLocations,
                   requests, attempts>>

\* The request of the call at hand that is still out or was answered last.
RequestAtHand ==
    CHOOSE i \in 1..Len(requests) :
        /\ requests[i].run = run
        /\ \A j \in (i + 1)..Len(requests) : requests[j].run # run

\* Line 1586, fetchLocationReportsFromEndpoint([hashedKey], days) as far as
\* await fetch() (lines 311-339): the url and the credentials are read from
\* state.settings as they are now, and the request goes out; what btoa throws
\* is caught as a failure of the device, and nothing is sent.
SendRequest ==
    /\ fpc = "query"
    /\ LET accessory == activeAccessories[device]
       IN IF Authorization(settings).threw # "none"
            THEN /\ console' = Append(console,
                        Logged("device", accessory.name, Authorization(settings).threw))
                 /\ NextDevice
                 /\ UNCHANGED requests
            ELSE /\ requests' = Append(requests,
                        RequestTo(settings, <<hashedKey>>, fetchDays)
                            @@ [accessoryId |-> accessory.id,
                                privateKey |-> accessory.privateKey, run |-> run,
                                response |-> Pending])
                 /\ fpc' = "response"
                 /\ UNCHANGED <<console, device>>
    /\ UNCHANGED <<pipelineVars, callVars, sessionVars, accessories, settings, locations, markers, toast,
                   fetchDays, activeAccessories, hashedKey, reports, reportIndex,
                   allLocations, attempts>>

\* Lines 339-349 and 358-363: fetch() settles: the timer aborts it, it
\* rejects, or the status line arrives; 401 and 404 throw at once, any other
\* status goes on to read the body.
ReceiveResponse ==
    /\ fpc = "response"
    /\ \E response \in Served(requests[RequestAtHand].url, requests[RequestAtHand].ids) :
          /\ requests' = [requests EXCEPT ![RequestAtHand].response = response]
          /\ IF HeadFailure(response) # "none"
               THEN /\ console' = Append(console,
                           Logged("device", activeAccessories[device].name,
                                  HeadFailure(response)))
                    /\ NextDevice
               ELSE /\ fpc' = "body"
                    /\ UNCHANGED <<console, device>>
    /\ UNCHANGED <<pipelineVars, callVars, sessionVars, accessories, settings, locations, markers, toast,
                   fetchDays, activeAccessories, hashedKey, reports, reportIndex,
                   allLocations, attempts>>

\* Lines 351-357 and 1587-1589: await response.text() or response.json()
\* completes; the reports of the device, or the failure of the device.
ReadBody ==
    /\ fpc = "body"
    /\ LET accessory == activeAccessories[device]
           answer == BodyOutcome(requests[RequestAtHand].response)
       IN IF answer.threw # "none"
            THEN /\ console' = Append(console,
                                      Logged("device", accessory.name, answer.threw))
                 /\ NextDevice
                 /\ UNCHANGED <<reports, reportIndex>>
            ELSE /\ reports' = answer.value
                 /\ reportIndex' = 1
                 /\ IF answer.value = <<>>
                      THEN NextDevice
                      ELSE fpc' = "decrypt" /\ UNCHANGED device
                 /\ UNCHANGED console
    /\ UNCHANGED <<pipelineVars, callVars, sessionVars, accessories, settings, locations, markers, toast,
                   fetchDays, activeAccessories, hashedKey, allLocations, requests,
                   attempts>>

\* The remaining reports of the device are left out once one has failed.
AfterReport_StopOnFailure(threw, index, n) == threw = "none" /\ index < n

\* for (const report of reports): whether there is a next report, whatever
\* became of this one (catch (decryptError) { console.error(...) })
AfterReport(threw, index, n) == index < n

\* Lines 1590-1603: await decryptReport(report, accessory.privateKey) and push
DecryptReport ==
    /\ fpc = "decrypt"
    /\ LET accessory == activeAccessories[device]
           rep == reports[reportIndex]
           decrypted == decryptReport(window, tz, rep, accessory.privateKey)
       IN /\ attempts' = Append(attempts,
                 [accessoryId |-> accessory.id, reportId |-> rep.id,
                  payload |-> rep.payload, privateKey |-> accessory.privateKey,
                  threw |-> decrypted.threw])
          /\ IF decrypted.threw = "none"
               THEN /\ allLocations' =
                          Append(allLocations, Location(accessory, decrypted.value))
                    /\ UNCHANGED console
               ELSE /\ console' = Append(console,
                          Logged("report", accessory.name, decrypted.threw))
                    /\ UNCHANGED allLocations
          /\ IF AfterReport(decrypted.threw, reportIndex, Len(reports))
               THEN reportIndex' = reportIndex + 1 /\ UNCHANGED <<fpc, device>>
               ELSE NextDevice /\ UNCHANGED reportIndex
    /\ UNCHANGED <<pipelineVars, callVars, sessionVars, accessories, settings, locations, markers, toast,
                   fetchDays, activeAccessories, hashedKey, reports, requests>>

\* showToast(`Fetched ${allLocations.length} location(s)`, 'success')
FetchedToast(n) ==
    Toast("success", "Fetched ${allLocations.length} location(s)", {<<"locations", n>>}, "")

\* Lines 1610-1624: sort, state.locations, updateMapMarkers, renderDevicesList,
\* the toast, fitBounds; catch (error) { showToast(`Failed to fetch: ...`) }
Publish ==
    /\ fpc = "publish"
    /\ LET sorted == SortByTimestamp(allLocations)
           state == [accessories |-> accessories, locations |-> sorted]
           drawn == updateMapMarkers(state)
           rendered == IF drawn.threw # "none" THEN drawn.threw
                       ELSE renderDevicesList(state)
           failure == IF rendered # "none" THEN rendered
                      ELSE IF Len(sorted) > 0 THEN fitBounds(drawn.value)
                      ELSE "none"
       IN /\ allLocations' = sorted
          /\ locations' = sorted
          /\ markers' = drawn.value
          /\ IF failure = "none"
               THEN /\ toast' = FetchedToast(Len(sorted))
                    /\ UNCHANGED console
               ELSE /\ toast' = Toast("error", "Failed to fetch: ${error.message}",
                                      {}, failure)
                    /\ console' = Append(console, Logged("batch", "", failure))
    /\ fpc' = "done"
    /\ UNCHANGED <<pipelineVars, callVars, sessionVars, accessories, settings, fetchDays, activeAccessories,
                   device, hashedKey, reports, reportIndex, requests, attempts>>

\* decryptReport as far as kdf (lines 240-262): what it throws before the
\* first operation of crypto.subtle is awaited, or "none".
BeforeKdf(w, rep, privateKeyBase64) ==
    IF ~B64Valid(rep.payload) THEN "InvalidCharacterError"
    ELSE IF ~InBounds(CorrectedPayload(base64ToBytes(rep.payload)), 0, 4)
      THEN "RangeError"
    ELSE IF ~w.secp224r1 THEN CurveNotLoadedError
    ELSE IF Len(base64ToBytes(privateKeyBase64)) # 28 THEN InvalidPrivateKeyError
    ELSE IF ~ValidPoint(Slice(CorrectedPayload(base64ToBytes(rep.payload)), 5, 62))
      THEN "bad point"
    ELSE "none"

\* The call at hand has handed control back to the event loop, so that other
\* handlers may run before it goes on: it has not begun or has ended, it
\* awaits fetch() or the body, or it awaits an operation of crypto.subtle
\* (the digest of sha256 in getHashedAdvertisementKey and in kdf, lines
\* 86-88; without crypto.subtle, or when the function throws before it gets
\* there, the await resumes in the same turn).  From the send of the request
\* to fetch(), and from the last answer or report to the toast (lines
\* 1605-1615), the call goes on without a break.
Yielded ==
    \/ fpc \in {"idle", "done", "response", "body"}
    \/ /\ fpc = "identity"
       /\ window.subtle
       /\ getAdvertisementKey(window, activeAccessories[device].privateKey).threw = "none"
    \/ /\ fpc = "decrypt"
       /\ window.subtle
       /\ BeforeKdf(window, reports[reportIndex],
                    activeAccessories[device].privateKey) = "none"

FetchNext ==
    \/ StartFetch
    \/ DeriveIdentity
    \/ SendRequest
    \/ ReceiveResponse
    \/ ReadBody
    \/ DecryptReport
    \/ Publish

SpecFetch == FetchInit /\ [][FetchNext]_vars

(***************************************************************************)
(* SpecEndpoint: one call of fetchLocationReportsFromEndpoint (src/app.js  *)
(* 310-364), one action per step between awaits, with the clock            *)
(***************************************************************************)
\* setTimeout(() => controller.abort(), 30000)
Timeout == 30000

\* The clock moves in thirds of the timeout.
Tick == Timeout \div 3

\* How long a call is followed, in timeouts.
MaxWait == 2

Keys == Accessory(1, "Keys", Key(1), TRUE, LabelIcon)

\* A fetchLocations call about to query the endpoint for its first device.
EndpointInit ==
    /\ pc = "idle"
    /\ tz = UTCZone
    /\ window = SecureContext
    /\ origin = PlainOrigin
    /\ report = ReportOf(origin)
    /\ privateKey = OwnerKey
    /\ InitLocals
    /\ CallIdle
    /\ SessionIdle
    /\ accessories = <<Keys>>
    /\ settings \in {ManualSettings, HomeSettings, OtherSettings, EuroSettings}
    /\ locations = <<>>
    /\ markers = <<>>
    /\ toast = NoToast
    /\ console = <<>>
    /\ fpc = "query"
    /\ fetchDays = settings.daysToFetch
    /\ activeAccessories = <<Keys>>
    /\ device = 1
    /\ hashedKey = ReportId(1)
    /\ reports = NotYet
    /\ reportIndex = NotYet
    /\ allLocations = <<>>
    /\ requests = <<>>
    /\ attempts = <<>>

\* What the call ends with: the value returned or the message thrown, and the
\* values the message shows by name.
Outcome(r, shows) == [threw |-> r.threw, value |-> r.value, shows |-> shows]

CallPending == epc \in {"fetch", "body"}

\* Everything a step of the call leaves alone.
CallFrame ==
    UNCHANGED <<pipelineVars, appVars, sessionVars, fpc, fetchDays, activeAccessories,
                device, hashedKey, reports, reportIndex, allLocations, attempts>>

\* Lines 311-339: the url, the headers (btoa may throw, and the call ends
\* there), the body, the timer, fetch()
BeginCall ==
    /\ epc = "idle"
    /\ IF Authorization(settings).threw # "none"
         THEN /\ outcome' = Outcome(Thrown(Authorization(settings).threw), {})
              /\ epc' = "thrown"
              /\ UNCHANGED <<requests, timer>>
         ELSE /\ requests' = Append(requests,
                                    RequestTo(settings, <<hashedKey>>, fetchDays))
              /\ timer' = "armed"
              /\ epc' = "fetch"
              /\ UNCHANGED outcome
    /\ UNCHANGED <<elapsed, received>>
    /\ CallFrame

\* Time passes while the call waits; an armed timer fires no later than at
\* its timeout.
Wait ==
    /\ CallPending
    /\ elapsed + Tick <= MaxWait * Timeout
    /\ timer = "armed" => elapsed + Tick <= Timeout
    /\ elapsed' = elapsed + Tick
    /\ UNCHANGED <<epc, timer, received, outcome, requests>>
    /\ CallFrame

\* controller.abort(): fetch() rejects with AbortError, and the catch block
\* throws the time-out error in its place.
TimerFires ==
    /\ epc = "fetch"
    /\ timer = "armed"
    /\ elapsed = Timeout
    /\ timer' = "fired"
    /\ received' = AbortResponse
    /\ outcome' = Outcome(ResponseOutcome(AbortResponse), {})
    /\ epc' = "thrown"
    /\ UNCHANGED <<elapsed, requests>>
    /\ CallFrame

\* fetch() rejects (no connection): the catch block throws the error on; the
\* timer stays as it is.
FetchRejects ==
    /\ epc = "fetch"
    /\ received' = NetworkFailure
    /\ outcome' = Outcome(ResponseOutcome(NetworkFailure), {})
    /\ epc' = "thrown"
    /\ UNCHANGED <<elapsed, timer, requests>>
    /\ CallFrame

\* Lines 341-349: fetch() resolves with the status line and the headers;
\* clearTimeout(timeoutId); 401 and 404 throw at once.
FetchResolves ==
    /\ epc = "fetch"
    /\ \E response \in Served(requests[Len(requests)].url, requests[Len(requests)].ids) :
          /\ response.kind = "http"
          /\ received' = response
          /\ timer' = "cleared"
          /\ IF StatusFailure(response.status) # "none"
               THEN /\ outcome' = Outcome(Thrown(StatusFailure(response.status)), {})
                    /\ epc' = "thrown"
               ELSE /\ epc' = "body"
                    /\ UNCHANGED outcome
    /\ UNCHANGED <<elapsed, requests>>
    /\ CallFrame

\* Lines 351-357: await response.text() or await response.json() completes.
BodyArrives ==
    /\ epc = "body"
    /\ outcome' = Outcome(BodyOutcome(received),
                          IF received.status # 200
                            THEN {<<"status", received.status>>,
                                  <<"errorText", received.text>>}
                          ELSE {})
    /\ epc' = IF BodyOutcome(received).threw = "none" THEN "returned" ELSE "thrown"
    /\ UNCHANGED <<elapsed, timer, received, requests>>
    /\ CallFrame

EndpointNext ==
    \/ BeginCall
    \/ Wait
    \/ TimerFires
    \/ FetchRejects
    \/ FetchResolves
    \/ BodyArrives

SpecEndpoint == EndpointInit /\ [][EndpointNext]_vars

\* The steps of the call end as the function says.
EndpointAgrees ==
    epc \in {"returned", "thrown"} =>
        /\ outcome.threw = fetchLocationReportsFromEndpoint(settings, received).threw
        /\ outcome.value = fetchLocationReportsFromEndpoint(settings, received).value

(***************************************************************************)
(* SpecOverlap: two fetchLocations calls in progress at once, the one made *)
(* at startup and one made by the refresh button.  Nothing keeps a call    *)
(* from starting while another awaits (the startup fetch, handleRefresh    *)
(* and saveAccessory all call fetchLocations unconditionally); each call   *)
(* has its own local variables.                                            *)
(***************************************************************************)
Bike == Accessory(2, "Bike", Key(2), TRUE, LabelIcon)

\* The DOMContentLoaded handler has run (lines 370-385) with these
\* accessories and settings in localStorage: with fetchOnStartup it has called
\* fetchLocations(), which has gone as far as its first await (lines
\* 1572-1585), unless rendering the list threw before; without it nothing is
\* fetched yet.
Loaded(list, s) ==
    /\ pc = "idle"
    /\ tz = UTCZone
    /\ window = SecureContext
    /\ origin = PlainOrigin
    /\ report = ReportOf(origin)
    /\ privateKey = OwnerKey
    /\ InitLocals
    /\ CallIdle
    /\ SessionIdle
    /\ accessories = list
    /\ settings = s
    /\ locations = <<>>
    /\ markers = <<>>
    /\ console = <<>>
    /\ IF s.fetchOnStartup
            /\ renderDevicesList([accessories |-> list, locations |-> <<>>]) = "none"
         THEN /\ fetchDays = s.daysToFetch
              /\ activeAccessories = ActiveOf(list)
              /\ IF Len(ActiveOf(list)) = 0
                   THEN /\ toast = Toast("warning", "No active devices to fetch", {}, "")
                        /\ fpc = "done"
                        /\ device = NotYet
                        /\ allLocations = NotYet
                   ELSE /\ toast = NoToast
                        /\ allLocations = <<>>
                        /\ device = 1
                        /\ fpc = "identity"
         ELSE /\ toast = NoToast
              /\ fpc = "idle"
              /\ fetchDays = NotYet
              /\ activeAccessories = NotYet
              /\ device = NotYet
              /\ allLocations = NotYet
    /\ hashedKey = NotYet
    /\ reports = NotYet
    /\ reportIndex = NotYet
    /\ requests = <<>>
    /\ attempts = <<>>

OverlapInit == \E list \in {<<Keys>>, <<Keys, Bike>>} : Loaded(list, HomeSettings)

\* The local variables of the fetchLocations call at hand.
CurrentFrame ==
    [run |-> run, fpc |-> fpc, fetchDays |-> fetchDays,
     activeAccessories |-> activeAccessories, device |-> device,
     hashedKey |-> hashedKey, reports |-> reports, reportIndex |-> reportIndex,
     allLocations |-> allLocations]

\* The frames and f, in the order in which their calls began.
Park(frames, f) ==
    LET all == {frames[i] : i \in 1..Len(frames)} \cup {f}
    IN [i \in 1..Cardinality(all) |->
           CHOOSE g \in all : Cardinality({h \in all : h.run < g.run}) = i - 1]

\* The frames without the k-th.
Unpark(frames, k) == SubSeq(frames, 1, k - 1) \o SubSeq(frames, k + 1, Len(frames))

\* The call at hand awaits outside its turn (or has ended) and the event
\* loop turns to another call that has not ended: its continuation.
SwitchCall ==
    /\ Yielded
    /\ \E k \in 1..Len(parked) :
          /\ parked[k].fpc # "done"
          /\ parked' = Park(Unpark(parked, k), CurrentFrame)
          /\ run' = parked[k].run
          /\ fpc' = parked[k].fpc
          /\ fetchDays' = parked[k].fetchDays
          /\ activeAccessories' = parked[k].activeAccessories
          /\ device' = parked[k].device
          /\ hashedKey' = parked[k].hashedKey
          /\ reports' = parked[k].reports
          /\ reportIndex' = parked[k].reportIndex
          /\ allLocations' = parked[k].allLocations
    /\ UNCHANGED <<pipelineVars, appVars, callVars, requests, attempts, outbound, ops,
                   importOffer>>

\* fetchLocations() called from a handler, as far as its first await (lines
\* 1572-1585), with state.accessories being list and the toast on screen
\* being shown: a call of its own, with its own local variables, whatever
\* other calls are in progress.  The calls are numbered as they begin.
CallFetchLocations(list, shown) ==
    /\ parked' = IF fpc = "idle" THEN parked ELSE Park(parked, CurrentFrame)
    /\ run' = IF fpc = "idle" THEN run ELSE Len(parked) + 2
    /\ fetchDays' = settings.daysToFetch
    /\ activeAccessories' = ActiveOf(list)
    /\ hashedKey' = NotYet
    /\ reports' = NotYet
    /\ reportIndex' = NotYet
    /\ IF Len(ActiveOf(list)) = 0
         THEN /\ toast' = Toast("warning", "No active devices to fetch", {}, "")
              /\ fpc' = "done"
              /\ device' = NotYet
              /\ allLocations' = NotYet
         ELSE /\ toast' = shown
              /\ allLocations' = <<>>
              /\ device' = 1
              /\ fpc' = "identity"

\* The local variables of a call, left alone.
SameCall ==
    UNCHANGED <<run, parked, fpc, fetchDays, activeAccessories, device, hashedKey,
                reports, reportIndex, allLocations>>

\* How many user operations a session is followed for.
MaxOps == 1

\* handleRefresh (src/app.js 673-683), the refresh button: fetchLocations()
\* whether or not a call is in progress (handleRefreshClick, lines 685-701,
\* does the same).
HandleRefresh ==
    /\ ops < MaxOps
    /\ Yielded
    /\ CallFetchLocations(accessories, toast)
    /\ ops' = ops + 1
    /\ UNCHANGED <<pipelineVars, callVars, accessories, settings, locations, markers,
                   console, requests, attempts, outbound, importOffer>>

\* The refresh button pressed once, whatever the startup call is at.
RefreshOnce == ops = 0 /\ HandleRefresh

OverlapNext ==
    \/ DeriveIdentity
    \/ SendRequest
    \/ ReceiveResponse
    \/ ReadBody
    \/ DecryptReport
    \/ Publish
    \/ SwitchCall
    \/ RefreshOnce

SpecOverlap == OverlapInit /\ [][OverlapNext]_vars

(***************************************************************************)
(* SpecSession: the user's operations around the fetchLocations calls they *)
(* start: the list refreshed, devices added, edited, imported and deleted, *)
(* settings saved, the endpoint tested, the history of a device shown,     *)
(* directions to a device opened.  A handler of the user runs only when    *)
(* the call at hand has handed control back (Yielded).                     *)
(***************************************************************************)
SessionInit ==
    \E list \in {<<Keys>>, <<Keys, Bike>>}, s \in {HomeSettings, QuietSettings} :
        Loaded(list, s)

\* Date.now().toString() at the n-th operation
NewId(n) ==
    IF n = 0 THEN "1718000000003" ELSE IF n = 1 THEN "1718000000004"
    ELSE IF n = 2 THEN "1718000000005" ELSE "1718000000006"

\* Date.now().toString() + Math.random().toString(36).substr(2, 9), the n-th
\* of them
ImportedId(n) ==
    <<"1718000000003k3j2h1g9x", "1718000000003q8w2e7r1t", "1718000000004z5x4c3v2b",
      "1718000000004m1n2b3v4c", "1718000000005a7s6d5f4g", "1718000000005h3j4k5l6p",
      "1718000000006o9i8u7y6t", "1718000000006r5e4w3q2a">>[(n % 8) + 1]

\* The icon importAllDevices gives every device: 'tag'
TagIcon == <<116, 97, 103>>

\* iconMap[icon] as line 1213 reads it, as the text it has in the icon field
\* (<<>> for undefined).  iconMap (src/app.js 28-35) is an object literal, so
\* besides its six entries the key finds the members of Object.prototype: the
\* constructor Object, the methods, and through __proto__ Object.prototype
\* itself; a function shows as its source text, the object as [object Object].
iconMap(icon) ==
    LET functionPrefix == <<102, 117, 110, 99, 116, 105, 111, 110, 32>>   \* "function "
        nativeBody ==
            <<40, 41, 32, 123, 32, 91, 110, 97, 116, 105, 118, 101, 32, 99, 111, 100, 101, 93, 32, 125>>   \* "() { [native code] }"
        methods ==
            {
              <<95, 95, 100, 101, 102, 105, 110, 101, 71, 101, 116, 116, 101, 114, 95, 95>>,   \* __defineGetter__
              <<95, 95, 100, 101, 102, 105, 110, 101, 83, 101, 116, 116, 101, 114, 95, 95>>,   \* __defineSetter__
              <<104, 97, 115, 79, 119, 110, 80, 114, 111, 112, 101, 114, 116, 121>>,   \* hasOwnProperty
              <<95, 95, 108, 111, 111, 107, 117, 112, 71, 101, 116, 116, 101, 114, 95, 95>>,   \* __lookupGetter__
              <<95, 95, 108, 111, 111, 107, 117, 112, 83, 101, 116, 116, 101, 114, 95, 95>>,   \* __lookupSetter__
              <<105, 115, 80, 114, 111, 116, 111, 116, 121, 112, 101, 79, 102>>,   \* isPrototypeOf
              <<112, 114, 111, 112, 101, 114, 116, 121, 73, 115, 69, 110, 117, 109, 101, 114, 97, 98, 108, 101>>,   \* propertyIsEnumerable
              <<116, 111, 83, 116, 114, 105, 110, 103>>,   \* toString
              <<118, 97, 108, 117, 101, 79, 102>>,   \* valueOf
              <<116, 111, 76, 111, 99, 97, 108, 101, 83, 116, 114, 105, 110, 103>>    \* toLocaleString
            }
    IN IF icon = <<116, 97, 103>> THEN <<127991, 65039>>
       ELSE IF icon = <<107, 101, 121>> THEN <<128273>>
       ELSE IF icon = <<98, 97, 103>> THEN <<127890>>
       ELSE IF icon = <<98, 105, 107, 101>> THEN <<128690>>
       ELSE IF icon = <<99, 97, 114>> THEN <<128663>>
       ELSE IF icon = <<112, 101, 116>> THEN <<128021>>
       ELSE IF icon = <<99, 111, 110, 115, 116, 114, 117, 99, 116, 111, 114>>   \* constructor
         THEN functionPrefix \o <<79, 98, 106, 101, 99, 116>> \o nativeBody   \* Object
       ELSE IF icon = <<95, 95, 112, 114, 111, 116, 111, 95, 95>>   \* __proto__
         THEN <<91, 111, 98, 106, 101, 99, 116, 32, 79, 98, 106, 101, 99, 116, 93>>   \* [object Object]
       ELSE IF icon \in methods THEN functionPrefix \o icon \o nativeBody
       ELSE <<>>

\* openAccessoryModal, lines 1213-1214: iconMap[accessory.icon] ||
\* accessory.icon || label, as the text the icon field then holds
PrefilledIcon(accessory) ==
    IF iconMap(accessory.icon) # <<>> THEN iconMap(accessory.icon)
    ELSE IF accessory.icon # <<>> THEN accessory.icon
    ELSE LabelIcon

\* What the user may have typed into the icon field: nothing, or a word.
FormIcons == {<<>>, WordIcon}

\* A private key typed again: with a blank after the fourth character when it
\* had none, without blanks when it had one.
Retyped(key) ==
    IF \E i \in 1..Len(key) : key[i] = 32 THEN SelectSeq(key, LAMBDA c : c # 32)
    ELSE SubSeq(key, 1, 4) \o <<32>> \o SubSeq(key, 5, Len(key))

\* The accessory form as saveAccessory reads it (lines 1254-1258, trimmed):
\* state.currentAccessoryId ("" for null), name, device id, private key, icon.
Form(editing, name, deviceId, key, icon) ==
    [editing |-> editing, name |-> name, deviceId |-> deviceId, privateKey |-> key,
     icon |-> icon]

\* The form for a new device (openAccessoryModal() empties it): a tag with or
\* without an icon typed, or the device id left out.
NewForms ==
    { Form("", "Wallet", "7F3A2B1C", Key(2), typed) : typed \in FormIcons }
        \cup { Form("", "Wallet", "", Key(2), <<>>) }

\* The form for a device of the list (openAccessoryModal(id) fills it in),
\* the private key as it is or typed again.
EditForms(list) ==
    UNION { { Form(list[i].id, list[i].name, "7F3A2B1C", key, PrefilledIcon(list[i])) :
                  key \in {list[i].privateKey, Retyped(list[i].privateKey)} } :
            i \in 1..Len(list) }

\* Lines 1276-1283: the accessory put in the place of the one being edited
\* (the first of that id, if there is one), or pushed.
Stored(list, editing, accessory) ==
    LET found == {j \in 1..Len(list) : list[j].id = editing}
    IN IF editing = "" THEN Append(list, accessory)
       ELSE IF found = {} THEN list
       ELSE [list EXCEPT ![CHOOSE j \in found : \A k \in found : j <= k] = accessory]

\* Something sent to a host: where to, the url or body pattern, and the device
\* ids and coordinates in it; open while an answer is awaited.
Sent(to, text, ids, coordinates) ==
    [to |-> to, text |-> text, ids |-> ids, coordinates |-> coordinates,
     open |-> FALSE]

\* What no operation of the user touches.
UserFrame == UNCHANGED <<pipelineVars, callVars, requests, attempts>>

\* saveAccessory (src/app.js 1253-1289): the form read; a field missing, the
\* toast and nothing else; the accessory pushed or put in place, saveAccessories
\* (which renders the list), the toast, then fetchLocations() up to its first
\* await.
SaveAccessory ==
    /\ ops < MaxOps
    /\ Yielded
    /\ \E form \in NewForms \cup EditForms(accessories) :
          IF form.name = "" \/ form.deviceId = "" \/ form.privateKey = <<>>
            THEN /\ toast' = Toast("error", "Please fill in all fields", {}, "")
                 /\ UNCHANGED accessories
                 /\ SameCall
            ELSE LET accessory ==
                         [id |-> IF form.editing # "" THEN form.editing ELSE NewId(ops),
                          name |-> form.name, privateKey |-> form.privateKey,
                          active |-> TRUE,
                          icon |-> IF form.icon = <<>> THEN LabelIcon ELSE form.icon]
                     list == Stored(accessories, form.editing, accessory)
                 IN /\ accessories' = list
                    /\ IF renderDevicesList([accessories |-> list,
                                             locations |-> locations]) # "none"
                         THEN UNCHANGED toast /\ SameCall
                         ELSE CallFetchLocations(list,
                                  Toast("success", "Accessory saved", {}, ""))
    /\ ops' = ops + 1
    /\ UNCHANGED <<settings, locations, markers, console, outbound, importOffer>>
    /\ UserFrame

\* state.accessories.filter(a => a.id !== id)
Without(list, id) == SelectSeq(list, LAMBDA a : a.id # id)

\* deleteAccessory (src/app.js 1539-1545, and 1291-1297), the user confirming
DeleteAccessory ==
    /\ ops < MaxOps
    /\ Yielded
    /\ \E i \in 1..Len(accessories) :
          LET kept == Without(accessories, accessories[i].id)
              rendered == renderDevicesList([accessories |-> kept, locations |-> locations])
          IN /\ accessories' = kept
             /\ toast' = IF rendered = "none"
                           THEN Toast("success", "Accessory deleted", {}, "")
                         ELSE toast
    /\ ops' = ops + 1
    /\ UNCHANGED <<settings, locations, markers, console, outbound, importOffer>>
    /\ SameCall
    /\ UserFrame

\* A device of a device.json file: its name, whether it has an id, its
\* private key, and isActive (<<>> when the file does not say).
FileDevice(name, hasId, key, isActive) ==
    [name |-> name, hasId |-> hasId, privateKey |-> key, isActive |-> isActive]

\* The device lists of the files the user may pick: an empty array, one
\* device, and two devices of which one is written without its id.
ImportFiles ==
    { <<>>,
      <<FileDevice("Wallet", TRUE, Key(2), <<>>)>>,
      <<FileDevice("Wallet", TRUE, Key(2), <<>>), FileDevice("Spare", FALSE, Key(1), <<TRUE>>)>>,
      <<FileDevice("Spare", FALSE, Key(1), <<TRUE>>), FileDevice("Wallet", TRUE, Key(2), <<>>)>> }

\* deviceIdToHex(undefined): id.toString() of no id
NoIdError == "Cannot read properties of undefined (reading 'toString')"

\* The onload handler of importDeviceJson (src/app.js 1710-1754): no device,
\* the toast; else the first device into the form (what saveAccessory reads
\* from the form later is an input of SaveAccessory) and the toast; with more
\* than one device the offer to import them all, taken up half a second
\* later; a first device without id makes deviceIdToHex throw, which is
\* reported as a file that cannot be parsed.  One offer is followed at a time.
ImportDeviceJson ==
    /\ ops < MaxOps
    /\ Yielded
    /\ importOffer = NotYet
    /\ \E devices \in ImportFiles :
          IF Len(devices) = 0
            THEN /\ toast' = Toast("error", "No devices found in file", {}, "")
                 /\ UNCHANGED <<console, importOffer>>
          ELSE IF ~devices[1].hasId
            THEN /\ console' = Append(console, Logged("file", devices[1].name, NoIdError))
                 /\ toast' = Toast("error", "Failed to parse device.json file", {}, "")
                 /\ UNCHANGED importOffer
            ELSE /\ toast' = Toast("success", "Loaded \"${device.name}\" from device.json",
                                   {<<"name", devices[1].name>>}, "")
                 /\ importOffer' = IF Len(devices) > 1 THEN devices ELSE NotYet
                 /\ UNCHANGED console
    /\ ops' = ops + 1
    /\ UNCHANGED <<accessories, settings, locations, markers, outbound>>
    /\ SameCall
    /\ UserFrame

RECURSIVE Imported(_, _, _, _)
\* The for-of loop of importAllDevices over the first n devices (lines
\* 1761-1778): the list, the count, and the console.error lines; a device
\* without id makes deviceIdToHex throw inside the try and is left out.  base
\* numbers the ids.
Imported(list, devices, n, base) ==
    IF n = 0 THEN [list |-> list, imported |-> 0, log |-> <<>>]
    ELSE LET before == Imported(list, devices, n - 1, base)
             dev == devices[n]
         IN IF ~dev.hasId
              THEN [before EXCEPT !.log = Append(@, Logged("import", dev.name, NoIdError))]
              ELSE [before EXCEPT
                       !.list = Append(@,
                           [id |-> ImportedId(base + n - 1),
                            name |-> IF dev.name = "" THEN "Unknown" ELSE dev.name,
                            privateKey |-> dev.privateKey,
                            active |-> IF dev.isActive # <<>> THEN dev.isActive[1] ELSE TRUE,
                            icon |-> TagIcon]),
                       !.imported = @ + 1]

\* The timer of importDeviceJson (src/app.js 1748-1752) asks whether to
\* import all devices; when the user confirms, importAllDevices (1758-1784).
ImportAllDevices ==
    /\ importOffer # NotYet
    /\ Yielded
    /\ \E confirmed \in BOOLEAN :
          IF ~confirmed THEN UNCHANGED <<accessories, console, toast>>
          ELSE LET done == Imported(accessories, importOffer, Len(importOffer), 2 * ops)
                   rendered == renderDevicesList([accessories |-> done.list,
                                                  locations |-> locations])
               IN /\ accessories' = done.list
                  /\ console' = console \o done.log
                  /\ toast' = IF rendered = "none"
                                THEN Toast("success", "Imported ${imported} device(s)",
                                           {<<"imported", done.imported>>}, "")
                              ELSE toast
    /\ importOffer' = NotYet
    /\ UNCHANGED <<settings, locations, markers, outbound, ops>>
    /\ SameCall
    /\ UserFrame

\* saveSettings (src/app.js 1076-1087), the form holding one of the two
\* endpoints of the user
SaveSettings ==
    /\ ops < MaxOps
    /\ Yielded
    /\ \E form \in {HomeSettings, OtherSettings} : settings' = form
    /\ toast' = Toast("success", "Settings saved", {}, "")
    /\ ops' = ops + 1
    /\ UNCHANGED <<accessories, locations, markers, console, outbound, importOffer>>
    /\ SameCall
    /\ UserFrame

\* The toast testEndpointConnection shows for what fetch() gave.
TestToast(response) ==
    IF response.kind = "abort" THEN Toast("error", "Connection timed out", {}, "")
    ELSE IF response.kind = "network"
      THEN Toast("error", "Error: ${error.message}", {}, "Failed to fetch")
    ELSE IF response.status = 404
      THEN Toast("warning", "Server reachable but endpoint not found", {}, "")
    ELSE IF response.status = 401
      THEN Toast("success", "Server reachable! Authentication required", {}, "")
    ELSE IF response.status \in {200, 400}
      THEN Toast("success", "Connection successful!", {}, "")
    ELSE Toast("success", "Server responded with status ${response.status}",
               {<<"status", response.status>>}, "")

\* What fetch() may give for the query without ids: an empty list, a refusal,
\* an error page, no answer within 10 s, no connection.
TestResponses ==
    { Response("http", 200, TRUE, <<>>), Response("http", 401, FALSE, <<>>),
      Response("http", 404, FALSE, <<>>), Response("http", 500, FALSE, <<>>),
      AbortResponse, NetworkFailure }

\* What the url field of the settings form may hold when the test button is
\* pressed: nothing, or the second endpoint.
TestUrls == {"", OtherUrl}

\* A test of the endpoint awaits its answer; the button is disabled until
\* then (lines 1141-1142 and 1171-1173).
Testing == \E n \in 1..Len(outbound) : outbound[n].open

\* testEndpointConnection (src/app.js 1131-1152) as far as await fetch(): with
\* no url the toast and nothing sent
TestEndpointConnection ==
    /\ ops < MaxOps
    /\ Yielded
    /\ ~Testing
    /\ \E url \in TestUrls :
          IF url = ""
            THEN /\ toast' = Toast("error", "Please enter an endpoint URL", {}, "")
                 /\ UNCHANGED outbound
            ELSE /\ outbound' = Append(outbound,
                        [Sent(url, "{\"ids\":[],\"days\":1}", <<>>, <<>>)
                            EXCEPT !.open = TRUE])
                 /\ UNCHANGED toast
    /\ ops' = ops + 1
    /\ UNCHANGED <<accessories, settings, locations, markers, console, importOffer>>
    /\ SameCall
    /\ UserFrame

\* testEndpointConnection (src/app.js 1154-1174) when fetch() has settled: the
\* toast, and the button enabled again
TestAnswered ==
    /\ Yielded
    /\ \E n \in 1..Len(outbound) :
          /\ outbound[n].open
          /\ outbound' = [outbound EXCEPT ![n].open = FALSE]
          /\ \E response \in TestResponses : toast' = TestToast(response)
    /\ UNCHANGED <<accessories, settings, locations, markers, console, ops, importOffer>>
    /\ SameCall
    /\ UserFrame

\* .filter(l => l.accessoryId === id).sort((a, b) => b.timestamp - a.timestamp)[0]:
\* the index of the first of the accessory's locations none is later than, or 0
LatestIndex(locs, id) ==
    LET own == {k \in 1..Len(locs) : locs[k].accessoryId = id}
        top == {k \in own : \A j \in own : ~TLess(locs[k].timestamp, locs[j].timestamp)}
    IN IF own = {} THEN 0 ELSE CHOOSE k \in top : \A j \in top : k <= j

\* navigateToDevice (src/app.js 1552-1565) from the button of a listed device
NavigateToDevice ==
    /\ ops < MaxOps
    /\ Yielded
    /\ \E i \in 1..Len(accessories) :
          LET k == LatestIndex(locations, accessories[i].id)
          IN IF k = 0
               THEN /\ toast' = Toast("error", "No location data for this device", {}, "")
                    /\ UNCHANGED outbound
               ELSE /\ outbound' = Append(outbound,
                          Sent("https://maps.apple.com",
                               "/?daddr=${latestLoc.lat},${latestLoc.lng}&dirflg=d",
                               <<>>, <<locations[k].lat, locations[k].lng>>))
                    /\ UNCHANGED toast
    /\ ops' = ops + 1
    /\ UNCHANGED <<accessories, settings, locations, markers, console, importOffer>>
    /\ SameCall
    /\ UserFrame

\* showDeviceHistory (src/app.js 1547-1550) from the button of a listed
\* device: selectDevice, then showDevicePath (948-1039), which draws the
\* accessory's locations on the map (taking the other markers off the map,
\* not out of state.markers) and says how many there are.
ShowDeviceHistory ==
    /\ ops < MaxOps
    /\ Yielded
    /\ \E i \in 1..Len(accessories) :
          LET totalPoints == Cardinality({k \in 1..Len(locations) :
                                 locations[k].accessoryId = accessories[i].id})
          IN toast' = IF totalPoints < 1
                        THEN Toast("warning", "No location points to show", {}, "")
                      ELSE Toast("success",
                                 IF totalPoints > 1
                                   THEN "Showing ${totalPoints} location points"
                                 ELSE "Showing ${totalPoints} location point",
                                 {<<"totalPoints", totalPoints>>}, "")
    /\ ops' = ops + 1
    /\ UNCHANGED <<accessories, settings, locations, markers, console, outbound,
                   importOffer>>
    /\ SameCall
    /\ UserFrame

SessionNext ==
    \/ DeriveIdentity
    \/ SendRequest
    \/ ReceiveResponse
    \/ ReadBody
    \/ DecryptReport
    \/ Publish
    \/ SwitchCall
    \/ HandleRefresh
    \/ SaveAccessory
    \/ DeleteAccessory
    \/ ImportDeviceJson
    \/ ImportAllDevices
    \/ SaveSettings
    \/ TestEndpointConnection
    \/ TestAnswered
    \/ NavigateToDevice
    \/ ShowDeviceHistory

SpecSession == SessionInit /\ [][SessionNext]_vars

(***************************************************************************)
(* Claims about decodePayload (checked under SpecDecode)                   *)
(***************************************************************************)
StatusByte == getUint8(decryptedPayload, 9)

Decoded == pc = "done" /\ error = "none"

\* C4 as stated: status 0b01100000 gives 'ok', 0b10100000 gives 'medium',
\* 0b11100000 gives 'low', and status 0 gives no reading.
C4_TableAsStated ==
    Decoded =>
        /\ (StatusByte = 96 => result.batteryStatus = "ok")
        /\ (StatusByte = 160 => result.batteryStatus = "medium")
        /\ (StatusByte = 224 => result.batteryStatus = "low")
        /\ (StatusByte = 0 => result.batteryStatus = "null")

\* C4 (amended): decodePayload maps the status byte to batteryStatus by bits 6-7:
\* 0b00100000 gives 'ok', 0b01100000 gives 'medium', 0b10100000 gives 'low',
\* 0b11100000 gives 'critical', and status 0 gives no reading (null).
C4_BatteryTable ==
    Decoded =>
        /\ (StatusByte = 32 => result.batteryStatus = "ok")
        /\ (StatusByte = 96 => result.batteryStatus = "medium")
        /\ (StatusByte = 160 => result.batteryStatus = "low")
        /\ (StatusByte = 224 => result.batteryStatus = "critical")
        /\ (StatusByte = 0 => result.batteryStatus = "null")

C4_Witness == Decoded /\ StatusByte = 96 /\ result.batteryStatus = "medium"

Zero == <<0, 0>>

AllOnes == <<65535, 65535>>

\* C5: latitudeRaw = 0xFFFFFFFF decodes to a latitude strictly below 0 (a small
\* negative value, not about 429.5), and longitudeRaw = 0xFFFFFFFF to a longitude
\* strictly below 0.
C5_AllOnesIsNegative ==
    Decoded =>
        /\ (getUint32(decryptedPayload, 0) = AllOnes => WLt(result.latitude, Zero))
        /\ (getUint32(decryptedPayload, 4) = AllOnes => WLt(result.longitude, Zero))

\* C6: for every n with -900000000 <= n < 0, latitudeRaw = 2^32 + n decodes to
\* latitude n / 10000000; likewise longitude for -1800000000 <= n < 0.
C6_NegativeDegreesRecovered ==
    Decoded =>
        /\ \A n \in LatSamples :
              (-900000000 <= n /\ n < 0
                  /\ Slice(decryptedPayload, 0, 4) = Int32Bytes(n))
                => result.latitude = FromInt(n)
        /\ \A n \in LonSamples :
              (-1800000000 <= n /\ n < 0
                  /\ Slice(decryptedPayload, 4, 8) = Int32Bytes(n))
                => result.longitude = FromInt(n)

(***************************************************************************)
(* Claims about the timestamp (checked under SpecTime)                     *)
(***************************************************************************)
\* C7: for every seen-timestamp s (uint32, big-endian, payload bytes 0-3) the
\* timestamp reported is exactly 2001-01-01T00:00:00Z plus s seconds, whatever
\* the local time zone of the runtime.
C7_TimestampIsEpochPlusSeconds ==
    pc = "ecdh" =>
        timestamp = TAddWide(DateUTC2001, getUint32(payloadData, 0))

(***************************************************************************)
(* Claims about decryptReport and decryptPayload (checked under Spec)      *)
(***************************************************************************)
\* The bytes base64ToBytes hands to decryptReport.
Decoded64 == base64ToBytes(report.payload)

\* Frame has run and atob did not throw.
Framed == pc # "frame" /\ error # "InvalidCharacterError"

\* C1: when an 88-byte payload P reaches decryptReport with a byte b inserted at
\* index 4, the bytes sliced into header fields equal P: timestamp, confidence,
\* ephemeral key, ciphertext and tag are those of P, whatever b is.
C1_InjectedByteRemoved ==
    (Framed /\ origin.injected # NotInjected /\ Len(origin.base) = 88) =>
        /\ Len(Decoded64) = 89
        /\ payloadData = origin.base
        /\ timestamp = SeenTimestamp(tz, origin.base)
        /\ confidence = origin.base[5]
        /\ ephemeralKeyBytes = SubSeq(origin.base, 6, 62)
        /\ encData = SubSeq(origin.base, 63, 72)
        /\ tag = SubSeq(origin.base, 73, 88)

C1_Witness ==
    /\ pc = "done"
    /\ error = "none"
    /\ origin.injected = <<255>>
    /\ Len(origin.base) = 88
    /\ Len(Decoded64) = 89
    /\ payloadData = origin.base

\* C2: for every payload that passes the length-correction step, the payload
\* sliced into header fields is exactly 88 bytes long and the tag slice is
\* exactly 16 bytes.
C2_CorrectedIs88Bytes ==
    Framed => (Len(payloadData) = 88 /\ Len(tag) = 16)

\* C3: a payload whose decoded length is neither 88 nor 89 bytes is a hard decode
\* error: decryptReport produces no location for it and applies no correction.
C3_OtherLengthsRejected ==
    (pc = "done" /\ Framed /\ Len(Decoded64) \notin {88, 89}) =>
        /\ error # "none"
        /\ payloadData = Decoded64

\* C8: the input kdf hashes is exactly secret, then 0 0 0 1, then ephemeralKey
\* (length len(secret) + 4 + len(ephemeralKey)), hashed once; decryptPayload then
\* uses bytes 0-15 of the digest as AES key and bytes 16-31 as IV.
C8_KdfInputAndKeySplit ==
    /\ (pc \in {"frame", "ecdh", "kdf"} => hashInputs = <<>>)
    /\ (derivedKey # NotYet =>
          /\ Len(hashInputs) = 1
          /\ hashInputs[1].input = sharedSecret \o <<0, 0, 0, 1>> \o ephemeralKeyBytes
          /\ Len(hashInputs[1].input) = Len(sharedSecret) + 4 + Len(ephemeralKeyBytes)
          /\ derivedKey = Digest(hashInputs[1].input))
    /\ \A i \in 1..Len(backendCalls) :
          /\ backendCalls[i].key = SubSeq(derivedKey, 1, 16)
          /\ backendCalls[i].iv = SubSeq(derivedKey, 17, 32)

C8_Witness ==
    /\ pc = "done"
    /\ error = "none"
    /\ Len(hashInputs) = 1
    /\ Len(hashInputs[1].input) = 89
    /\ Len(backendCalls) = 1
    /\ backendCalls[1].key = SubSeq(derivedKey, 1, 16)

\* Every backend that was invoked rejected the tag.
TagRejected ==
    /\ Len(backendCalls) > 0
    /\ \A i \in 1..Len(backendCalls) : ~backendCalls[i].returned

\* C9: when the authentication tag does not verify, decryptPayload returns no
\* plaintext and fails with an authentication failure that differs from the
\* 'no decryption backend available' failure.
C9_AuthFailureDistinguishable ==
    (pc = "done" /\ TagRejected) =>
        /\ decryptedPayload = NotYet
        /\ error # "none"
        /\ error # NoBackendError

\* C10: within one decryptPayload call the platform provider is tried before the
\* software fallback, no backend is invoked after one has returned plaintext, and
\* the fallback runs only if the platform provider is unavailable or threw.
C10_BackendOrder ==
    LET n == Len(backendCalls)
    IN /\ n <= 2
       /\ \A i \in 1..n : \A j \in 1..n :
             i < j => /\ backendCalls[i].backend = "platform"
                      /\ backendCalls[j].backend = "software"
                      /\ ~backendCalls[i].returned
       /\ \A j \in 1..n :
             backendCalls[j].backend = "software" =>
                \/ ~window.subtle
                \/ (j = 2 /\ backendCalls[1].threw # "none")

C10_Witness ==
    /\ pc = "done"
    /\ window.subtle
    /\ window.nobleGcm
    /\ Len(backendCalls) = 1
    /\ backendCalls[1].backend = "platform"
    /\ backendCalls[1].returned
    /\ error = "none"

\* The fallback ran after the platform provider threw.
C10_FallbackAfterThrow ==
    /\ Len(backendCalls) = 2
    /\ backendCalls[1].threw = "OperationError"
    /\ backendCalls[2].backend = "software"

\* The error raised by the last backend decryptPayload invoked.
LastBackendError == backendCalls[Len(backendCalls)].threw

\* C11: when every backend decryptPayload tried has failed, the error the caller
\* receives is the error raised by the last backend tried.
C11_LastBackendErrorSurfaced ==
    (pc = "done" /\ TagRejected) => error = LastBackendError

(***************************************************************************)
(* Claims about fetchLocations (checked under SpecFetch)                   *)
(***************************************************************************)
\* base64(SHA-256(public key with its first byte removed)), written out.
HashOfPublicKeyTail(privateKeyBase64) ==
    LET pub == getPublicKey(bytesToHex(base64ToBytes(privateKeyBase64))).value
    IN bytesToBase64(Digest(SubSeq(pub, 2, Len(pub))))

\* The private key of the accessory a request was sent for.
KeyOfRequest(request) == request.privateKey

\* What getHashedAdvertisementKey returned is right wherever it is held.
HashedKeysRecomputable ==
    /\ fpc = "query" =>
          hashedKey = HashOfPublicKeyTail(activeAccessories[device].privateKey)
    /\ \A i \in 1..Len(requests) :
          /\ requests[i].ids = <<HashOfPublicKeyTail(KeyOfRequest(requests[i]))>>
          /\ \A j \in 1..Len(requests) :
                KeyOfRequest(requests[i]) = KeyOfRequest(requests[j])
                    => requests[i].ids = requests[j].ids

\* A step in which getHashedAdvertisementKey returns leaves the application
\* state and the runtime as they were.
HashingChangesNothing ==
    (fpc = "identity" /\ fpc' = "query") =>
        /\ UNCHANGED <<accessories, settings, locations, markers, toast, console>>
        /\ UNCHANGED <<window, tz>>

\* C13: getHashedAdvertisementKey is deterministic and side-effect free: for
\* every private key, every call returns the same base64 string, which is
\* base64(SHA-256(public key with its first byte removed)), whichever SHA-256
\* backend the runtime selects, and no call changes application state.
C13_HashedKeyDeterministic ==
    []HashedKeysRecomputable /\ [][HashingChangesNothing]_vars

\* The same private key hashed twice in a runtime without crypto.subtle.
C13_Witness ==
    /\ fpc = "done"
    /\ Sha256Backend(window) = "noble"
    /\ Len(requests) = 2
    /\ KeyOfRequest(requests[1]) = KeyOfRequest(requests[2])
    /\ requests[1].accessoryId # requests[2].accessoryId
    /\ requests[1].ids = requests[2].ids
    /\ Len(requests[1].ids[1]) = 44

\* fetchLocations has ended after going through its devices.
BatchEnded == fpc = "done" /\ Len(activeAccessories) > 0

\* C15: every report the endpoint returns is decrypted with the private key of
\* the device whose hashed advertisement key equals report.id; a report whose
\* id is that of no queried device is never handed to decryptReport with some
\* other device's key.
C15_ReportsMatchedById ==
    \A i \in 1..Len(attempts) :
        attempts[i].reportId = HashOfPublicKeyTail(attempts[i].privateKey)

\* The reports a request brought back (none when it failed).
ReportsOf(request) ==
    IF request.response = Pending \/ ResponseOutcome(request.response).threw # "none"
      THEN <<>>
    ELSE ResponseOutcome(request.response).value

\* The accessory a request was sent for.
AccessoryOf(request) ==
    accessories[CHOOSE j \in 1..Len(accessories) :
                    accessories[j].id = request.accessoryId]

RECURSIVE Decryptable(_, _, _)
\* The locations of those of the first n reports that decrypt with the
\* accessory's key, in the order of the reports.
Decryptable(accessory, list, n) ==
    IF n = 0 THEN <<>>
    ELSE LET decrypted == decryptReport(window, tz, list[n], accessory.privateKey)
             before == Decryptable(accessory, list, n - 1)
         IN IF decrypted.threw = "none"
              THEN Append(before, Location(accessory, decrypted.value))
              ELSE before

RECURSIVE Gathered(_)
\* The locations the first n requests brought back: device order, then report
\* order within a device.
Gathered(n) ==
    IF n = 0 THEN <<>>
    ELSE Gathered(n - 1)
           \o Decryptable(AccessoryOf(requests[n]), ReportsOf(requests[n]),
                          Len(ReportsOf(requests[n])))

InputOrder == Gathered(Len(requests))

\* Where the i-th location of the input belongs in a stable ascending sort:
\* behind those with an earlier timestamp and those of the same timestamp that
\* came before it.
Rank(list, i) ==
    1 + Cardinality({j \in 1..Len(list) :
                        \/ Before(list[j], list[i])
                        \/ (j < i /\ list[j].timestamp = list[i].timestamp)})

\* C16: when fetchLocations completes a batch, state.locations is sorted
\* ascending by timestamp, and locations with equal timestamps keep their input
\* order (device iteration order, then report order within a device).
C16_SortedStable ==
    BatchEnded =>
        LET input == InputOrder
        IN /\ \A i \in 1..Len(locations) : \A j \in 1..Len(locations) :
                 i < j => ~Before(locations[j], locations[i])
           /\ \A i \in 1..Len(input) :
                 /\ Rank(input, i) <= Len(locations)
                 /\ locations[Rank(input, i)] = input[i]

\* Both devices brought two locations; the sort moved some, and locations of
\* one second from both devices and from one device lie side by side.
C16_Witness ==
    /\ BatchEnded
    /\ Len(locations) = 4
    /\ locations # InputOrder
    /\ \E i \in 1..3 :
          /\ locations[i].timestamp = locations[i + 1].timestamp
          /\ locations[i].accessoryId # locations[i + 1].accessoryId
    /\ \E i \in 1..3 :
          /\ locations[i].timestamp = locations[i + 1].timestamp
          /\ locations[i].accessoryId = locations[i + 1].accessoryId
          /\ locations[i].lat # locations[i + 1].lat

\* How many times x occurs in list.
Count(list, x) == Cardinality({i \in 1..Len(list) : list[i] = x})

\* The decryptReport calls made for a request's accessory.
AttemptsFor(request) ==
    Cardinality({i \in 1..Len(attempts) :
                    attempts[i].accessoryId = request.accessoryId})

\* Whether a console.error entry of the given scope exists for the accessory.
LoggedFor(scope, accessory) ==
    \E i \in 1..Len(console) :
        console[i].scope = scope /\ console[i].accessory = accessory.name

\* Every active device was gone through: its identity derivation or the
\* encoding of the credentials failed and was logged, or it was queried, the
\* query was answered, and each report of the answer was handed to
\* decryptReport.
EveryDeviceProcessed ==
    \A i \in 1..Len(activeAccessories) :
        LET accessory == activeAccessories[i]
            sent == {k \in 1..Len(requests) : requests[k].accessoryId = accessory.id}
        IN IF \/ getHashedAdvertisementKey(window, accessory.privateKey).threw # "none"
              \/ Authorization(settings).threw # "none"
             THEN sent = {} /\ LoggedFor("device", accessory)
             ELSE /\ Cardinality(sent) = 1
                  /\ \A k \in sent :
                        /\ requests[k].response # Pending
                        /\ AttemptsFor(requests[k]) = Len(ReportsOf(requests[k]))

\* C17: in one fetchLocations run, the failure of one report's decryption or of
\* one device's query never prevents the other reports and devices from being
\* processed: the result holds exactly the locations of all the reports that
\* decrypt, from all the devices whose query succeeded.
C17_FailuresAreIsolated ==
    BatchEnded =>
        LET input == InputOrder
        IN /\ EveryDeviceProcessed
           /\ Len(locations) = Len(input)
           /\ \A i \in 1..Len(input) :
                 Count(locations, input[i]) = Count(input, input[i])

\* The first device's query failed; the second device's first report did not
\* decrypt and its second one did.
C17_Witness ==
    /\ BatchEnded
    /\ Len(console) = 2
    /\ console[1].scope = "device"
    /\ console[1].error = "Endpoint not found. Check your URL."
    /\ console[2].scope = "report"
    /\ Len(attempts) = 2
    /\ attempts[1].threw # "none"
    /\ attempts[2].threw = "none"
    /\ Len(locations) = 1

\* The devices whose identity derivation or query failed in this run.
DeviceFailures ==
    Cardinality({i \in 1..Len(console) : console[i].scope = "device"})

\* The batch ran to its end and said so.
BatchCompleted == BatchEnded /\ toast.type = "success"

\* C18: a completed batch gives its partial results together with a count of
\* failures: with two devices, one whose query fails and one that brings two
\* decryptable reports, it reports exactly two locations and one device failure.
C18_FailureCountReported ==
    (BatchCompleted /\ Len(activeAccessories) = 2
        /\ DeviceFailures = 1 /\ Len(locations) = 2) =>
        /\ <<"locations", 2>> \in toast.shows
        /\ <<"failures", 1>> \in toast.shows

\* Every active device of the run failed.
EveryDeviceFailed == DeviceFailures = Len(activeAccessories)

\* A run in which every query succeeded and brought no report ends like this.
QuietRunOutcome ==
    (BatchCompleted /\ console = <<>> /\ attempts = <<>>) =>
        <<locations, markers, toast>> = <<<<>>, <<>>, FetchedToast(0)>>

\* C19: when every active device fails, the batch ends with zero results in a
\* 'nothing fetched' state that differs from the state a run ends in when all
\* its queries succeeded and returned no reports.
C19_NothingFetchedDistinguishable ==
    (BatchEnded /\ EveryDeviceFailed) =>
        /\ locations = <<>>
        /\ <<locations, markers, toast>> # <<<<>>, <<>>, FetchedToast(0)>>

\* C20: in every fetchLocations run the final sort and the publication of
\* state.locations (with the markers and the toast) come only after every
\* query and every decryption attempt of the run, successful or failed, is over.
C20_PublishedAfterAllAttempts ==
    /\ fpc \in {"identity", "query", "response", "body", "decrypt"} =>
          /\ locations = <<>>
          /\ markers = <<>>
          /\ toast = NoToast
    /\ (fpc \in {"publish", "done"} /\ Len(activeAccessories) > 0) =>
          EveryDeviceProcessed

\* Published after two queries, one of them failed, and two decryption
\* attempts, one of them failed.
C20_Witness ==
    /\ BatchEnded
    /\ Len(requests) = 2
    /\ Len(attempts) = 2
    /\ DeviceFailures = 1
    /\ \E i \in 1..2 : attempts[i].threw # "none"
    /\ Len(locations) = 1
    /\ toast = FetchedToast(1)

(***************************************************************************)
(* Claims about icons, coordinates and markers (SpecFetch, SpecDecode)     *)
(***************************************************************************)
\* C25: getDisplayIcon terminates and returns a display icon for every
\* accessory: the accessory's own icon when it has at most 4 code points, and
\* otherwise (icon missing, empty or longer) the iconMap fallback.
C25_IconAlwaysShown ==
    BatchEnded =>
        \A i \in 1..Len(accessories) :
            /\ getDisplayIcon(accessories[i]).threw = "none"
            /\ getDisplayIcon(accessories[i]).value # <<>>
            /\ IconShown(accessories[i]) =>
                  getDisplayIcon(accessories[i]).value = accessories[i].icon

\* C26: for every pair of uint32 values (latitudeRaw, longitudeRaw),
\* decodePayload returns a latitude within [-90, 90] degrees and a longitude
\* within [-180, 180] degrees.
C26_CoordinatesInRange ==
    Decoded =>
        /\ ~WGt(result.latitude, LatLimit)
        /\ ~WLt(result.latitude, NegLatLimit)
        /\ ~WGt(result.longitude, LonLimit)
        /\ ~WLt(result.longitude, NegLonLimit)

\* The markers of the accessory with this id.
MarkersOf(id) == {m \in 1..Len(markers) : markers[m].deviceId = id}

\* The entries of state.locations of the accessory with this id.
LocationsOf(id) == {k \in 1..Len(locations) : locations[k].accessoryId = id}

\* The marker stands at a location of the accessory than which none is later.
AtGreatestTimestamp(marker, id) ==
    \E k \in LocationsOf(id) :
        /\ \A j \in LocationsOf(id) :
              ~TLess(locations[k].timestamp, locations[j].timestamp)
        /\ marker.lat = locations[k].lat
        /\ marker.lng = locations[k].lng

\* C29: when a fetchLocations run completes, state.markers holds exactly one
\* marker for each accessory of state.accessories that has at least one entry
\* in state.locations, placed at that accessory's location with the greatest
\* timestamp, and no other marker.
C29_MarkersMatchLocations ==
    BatchEnded =>
        /\ \A i \in 1..Len(accessories) :
              LocationsOf(accessories[i].id) # {} =>
                  /\ Cardinality(MarkersOf(accessories[i].id)) = 1
                  /\ \A m \in MarkersOf(accessories[i].id) :
                        AtGreatestTimestamp(markers[m], accessories[i].id)
        /\ \A m \in 1..Len(markers) :
              \E i \in 1..Len(accessories) :
                  /\ accessories[i].id = markers[m].deviceId
                  /\ LocationsOf(accessories[i].id) # {}

(***************************************************************************)
(* Claims about the endpoint call (checked under SpecEndpoint)             *)
(***************************************************************************)
\* C21: every call to fetchLocationReportsFromEndpoint ends within the
\* timeout, with a result or with a failure; it never hangs, not even while
\* the response body is being read: no call is still waiting once more than
\* the timeout has passed.
C21_EndsWithinTimeout == CallPending => elapsed <= Timeout

CallEnded == epc \in {"returned", "thrown"}

\* The call has ended and fetch() had been called: there is a response, an
\* abort or a rejection to speak of.
CallAnswered == CallEnded /\ requests # <<>>

\* What C22 says of every response but one of status 200.
FailuresMapped ==
    /\ received.kind = "abort" =>
          outcome.threw = "Request timed out (30s). Check if endpoint is running."
    /\ received.kind = "http" /\ received.status = 401 =>
          outcome.threw = "Authentication failed. Check your username/password."
    /\ received.kind = "http" /\ received.status = 404 =>
          outcome.threw = "Endpoint not found. Check your URL."
    /\ received.kind = "http" /\ received.status \notin {200, 401, 404} =>
          /\ outcome.threw = "HTTP ${response.status}: ${errorText}"
          /\ outcome.shows = {<<"status", received.status>>,
                              <<"errorText", received.text>>}

\* The call returned the results of the response, or an empty list.
ResultsReturned ==
    /\ outcome.threw = "none"
    /\ outcome.value = IF received.hasResults THEN received.results ELSE <<>>

\* C22 as stated: status 401 gives the authentication failure, 404 the
\* endpoint-not-found failure, any other status but 200 a backend error with
\* the status and the body, the timeout abort a request-timeout failure, and
\* status 200 the results list of the response, empty when the field is absent.
C22_AsStated ==
    CallAnswered =>
        /\ FailuresMapped
        /\ received.kind = "http" /\ received.status = 200 => ResultsReturned

\* C22, amended: as stated for every failure; status 200 gives the results
\* list (empty when the field is absent) when the body is a JSON object, the
\* SyntaxError of response.json() when the body is not JSON, and the
\* TypeError of reading data.results when the body is the JSON text null; a
\* failure of fetch() itself is thrown on as it is.
C22_OutcomeMapping ==
    CallAnswered =>
        /\ FailuresMapped
        /\ received.kind = "http" /\ received.status = 200 =>
              CASE received.body = "object" -> ResultsReturned
                [] received.body = "html" ->
                     outcome.threw = "Unexpected token '<' is not valid JSON"
                [] received.body = "null" ->
                     outcome.threw = "Cannot read properties of null (reading 'results')"
        /\ received.kind = "network" => outcome.threw = "Failed to fetch"

C22_Witness ==
    /\ epc = "thrown"
    /\ requests # <<>>
    /\ received.kind = "http"
    /\ received.status = 404
    /\ outcome.threw = "Endpoint not found. Check your URL."
    /\ timer = "cleared"

(***************************************************************************)
(* Claims about overlapping calls (checked under SpecOverlap)              *)
(***************************************************************************)
\* The local variables of the fetchLocations call that began as the n-th.
FrameOf(n) ==
    IF run = n THEN CurrentFrame
    ELSE IF \E k \in 1..Len(parked) : parked[k].run = n
      THEN parked[CHOOSE k \in 1..Len(parked) : parked[k].run = n]
    ELSE IdleFrame(n)

BothCallsEnded == FrameOf(1).fpc = "done" /\ FrameOf(2).fpc = "done"

\* C27: when two fetchLocations runs overlap, state.locations after both have
\* finished is the complete result of the run that started last, never the
\* result of the run that started earlier.
C27_LastStartedRunWins ==
    BothCallsEnded => locations = FrameOf(2).allLocations

(***************************************************************************)
(* Claims about a session (checked under SpecSession)                      *)
(***************************************************************************)
\* C23: after any sequence of user operations the app sends device or
\* location data only to the configured endpoint: nothing sent anywhere else
\* carries decrypted coordinates, keys or identifiers.
C23_OnlyConfiguredEndpoint ==
    \A n \in 1..Len(outbound) :
        outbound[n].to # settings.endpointUrl =>
            outbound[n].coordinates = <<>> /\ outbound[n].ids = <<>>

\* The text holds the part somewhere.
Contains(text, part) ==
    \E i \in 1..(Len(text) - Len(part) + 1) : SubSeq(text, i, i + Len(part) - 1) = part

\* The private keys of the devices as the page may hold them (as stored, or
\* typed again), and their advertisement keys as the base64 text they would
\* be sent as.
KeyMaterial ==
    UNION { { Key(k), Retyped(Key(k)),
              bytesToBase64(getAdvertisementKey(SecureContext, Key(k)).value) } :
            k \in 1..2 }

\* What of a logged request went over the wire.
SentPart(request) ==
    [url |-> request.url, authorization |-> request.authorization,
     ids |-> request.ids, days |-> request.days]

\* The requests were made under the same settings and day count for private
\* keys of the same hashed id.
SameButForKey(a, b) ==
    /\ a.url = b.url
    /\ a.authorization = b.authorization
    /\ a.days = b.days
    /\ HashOfPublicKeyTail(KeyOfRequest(a)) = HashOfPublicKeyTail(KeyOfRequest(b))

\* C24: no outbound request ever contains a device's private key or its
\* advertisement key: every report-store query is made of the url and the
\* credentials of the settings, the hashed advertisement key of the device
\* and the day count and of nothing else, so that requests of runs which
\* differ only in private keys of the same hashed id are identical; what is
\* sent elsewhere holds no key either.
C24_NoKeyLeavesThePage ==
    /\ \A n \in 1..Len(requests) :
          /\ \E s \in {HomeSettings, OtherSettings} :
                SentPart(requests[n]) =
                    RequestTo(s, <<HashOfPublicKeyTail(KeyOfRequest(requests[n]))>>,
                              requests[n].days)
          /\ requests[n].days \in {HomeSettings.daysToFetch, OtherSettings.daysToFetch}
          /\ \A secret \in KeyMaterial :
                /\ \A i \in 1..Len(requests[n].ids) :
                      ~Contains(requests[n].ids[i], secret)
                /\ ~Contains(requests[n].authorization, secret)
    /\ \A i \in 1..Len(requests) : \A j \in 1..Len(requests) :
          SameButForKey(requests[i], requests[j]) =>
              SentPart(requests[i]) = SentPart(requests[j])
    /\ \A n \in 1..Len(outbound) : outbound[n].ids = <<>>

\* Two runs have queried for the same device, its private key typed again in
\* between, and sent the same request.
C24_Witness ==
    \E i \in 1..Len(requests) : \E j \in 1..Len(requests) :
        /\ requests[i].run # requests[j].run
        /\ KeyOfRequest(requests[i]) # KeyOfRequest(requests[j])
        /\ SameButForKey(requests[i], requests[j])
        /\ SentPart(requests[i]) = SentPart(requests[j])

\* C28: in every reachable state, after any sequence of saveAccessory,
\* deleteAccessory, importAllDevices and fetchLocations (a deletion during a
\* fetch included), every entry of state.locations refers to an accessory
\* that is present in state.accessories.
C28_LocationsHaveAccessories ==
    \A k \in 1..Len(locations) :
        \E i \in 1..Len(accessories) : accessories[i].id = locations[k].accessoryId

\* C30: all report-store queries of one fetchLocations run use the same
\* endpoint URL, credentials and day window, even if saveSettings runs while
\* the batch is in progress.
C30_OneConfigurationPerRun ==
    \A i \in 1..Len(requests) : \A j \in 1..Len(requests) :
        requests[i].run = requests[j].run =>
            /\ requests[i].url = requests[j].url
            /\ requests[i].authorization = requests[j].authorization
            /\ requests[i].days = requests[j].days

====
